---- MODULE Spec2Model ----
(***************************************************************************)
(* Model of the session orchestrator of lambda-nat-proxy: the connection   *)
(* manager (session list, monitor tick, background launches, launch        *)
(* gating, promotion watcher, drain cleanup, shutdown), the health flag    *)
(* written by the launcher's keepalive task, and the SOCKS5 front-end's    *)
(* dispatch of client flows onto sessions.                                 *)
(*                                                                         *)
(* Time is counted in whole seconds and only where the code compares it:   *)
(* sinceLast is time.Since(launchState.lastLaunchAttempt).  Timers whose   *)
(* expiry the code only waits for (TTL, drain timeout, tickers) are        *)
(* environment steps.  MaxSess bounds the sessions ever launched and       *)
(* MaxEvents what the environment does to them: connections closed,       *)
(* keepalives lost, the daemon's context cancelled.                        *)
(*                                                                         *)
(* Spec      the connection manager and its goroutines                     *)
(* SpecFlow  the same, with the SOCKS5 front-end dispatching flows         *)
(* SpecGate  the LaunchState gate alone, second by second                  *)
(***************************************************************************)
EXTENDS Integers, Sequences, FiniteSets, Bags, TLC

\* ---- bounds of the model ----
MaxSess == 4
MaxEvents == 1
NumTasks == 2
NumFlows == 1
MaxFailures == 1
GateFailures == 4
MaxProbes == 6
MaxLaunches == 3
MaxList == 3
DrainTicks == 5
MaxChunks == 2
\* nonces are compared modulo this; more than the frames ever in flight
NonceSpace == 4
MaxWatchTicks == 10
AcceptTicks == 12
DurMax == 15
MaxTargets == 2
MaxFrames == 3
MaxRaw == 1
NumHandlers == 2
MaxTarget == 2

SID == 1..MaxSess
FID == 1..NumFlows
NoSession == 0

RolePrimary == "primary"
RoleSecondary == "secondary"
RoleDraining == "draining"

VARIABLES
    phase,       \* Start: "new", "running" (blocked on ctx), "stopped", "failed"
    ctxDone,     \* the context given to Start is cancelled
    shutdownCh,  \* cm.shutdownCh is closed
    monitorOn,   \* the monitor goroutine has not returned
    sess,        \* the Session objects, by id
    sessions,    \* cm.sessions
    ls,          \* cm.launchState (flags and failedAttempts)
    sinceLast,   \* time.Since(cm.launchState.lastLaunchAttempt)
    tasks,       \* bag of goroutines running launchPrimarySession / launchSecondarySession
    watch,       \* checkForPromotion goroutine of each secondary
    flow,        \* SOCKS5 client connections
    events,      \* environment events so far
    ka,          \* the keepalive task of one session (startHealthCheck)
    lp,          \* one run of launchSession / Launcher.Launch
    dc,          \* the drain cleanup of one demoted session
    sf,          \* one SOCKS5 flow (handleSOCKS5ConnectionWithSessionAndContext)
    hp,          \* one call of PerformNATHolePunch
    sp,          \* one run of the bidirectional splicer
    mx,          \* SOCKS5 flows sharing one session
    cx,          \* a control stream: frames written, bytes on the wire, frames read
    tf,          \* a flow-request stream: targets written, bytes on the wire, targets read
    tt,          \* one session's clock: its TTL, its age and what RemainingTTL returned
    ac,          \* ac: one primary launch waiting in StartAndAccept, with a clock
    tk,          \* tk: what the monitor's last tick read from the clock
    pw,          \* pw: one promotion watcher (checkForPromotion) with its ticker and timer
    lk,          \* the mutexes: each task's lock-operation script and position
    lt           \* the keepalive with the worker's answers queued on the stream

\* the connection manager and the front-end's dispatch
coreVars == <<phase, ctxDone, shutdownCh, monitorOn, sess, sessions, ls, sinceLast,
              tasks, watch, flow, events>>

\* the tasks modelled on their own
aux == <<ka, lp, dc, sf, hp, sp, mx, cx, tf, tt, ac, tk, pw, lk, lt>>

vars == <<coreVars, aux>>

\* a Session.  closed: QuicConn.Context().Done() is closed; cancelled: its
\* Cancel was called (which also closes its QUIC listener); draining: its
\* scheduleDrainCleanup goroutine is waiting for the drain timer
NoSess == [role |-> "none", healthy |-> FALSE, closed |-> FALSE,
           cancelled |-> FALSE, drain |-> FALSE]
NoWatch == [pc |-> "none", count |-> 0]
NoFlow == [pc |-> "none", sid |-> NoSession, atDemotion |-> FALSE]

\* ---- Session methods ----
IsHealthy(ss, s) == ss[s].healthy
IsPrimary(ss, s) == ss[s].role = RolePrimary
IsSecondary(ss, s) == ss[s].role = RoleSecondary
IsDraining(ss, s) == ss[s].role = RoleDraining
ConnDone(ss, s) == ss[s].closed

Range(q) == {q[i] : i \in 1..Len(q)}

Alive == {s \in SID : sess[s].role # "none"}
Unused == {s \in SID : sess[s].role = "none"}
FreshSid == IF Unused = {} THEN NoSession
            ELSE CHOOSE s \in Unused : \A r \in Unused : s <= r

HasPrimary(q, ss) == \E i \in 1..Len(q) : IsPrimary(ss, q[i])
HasSecondary(q, ss) == \E i \in 1..Len(q) : IsSecondary(ss, q[i])

\* session.Cancel()
CancelIn(ss, s) == [ss EXCEPT ![s].cancelled = TRUE]

\* cleanupSession: cancel, close the control stream, close the QUIC connection
CleanupIn(ss, s) == [ss EXCEPT ![s].cancelled = TRUE, ![s].closed = TRUE]

\* ---- launch gating ----
\* (mutation) the extended cooldown loses its factor of ten seconds
CooldownPrimaryUnscaled(n) == IF n > 2 THEN n ELSE 5

CooldownPrimary(n) == IF n > 2 THEN n * 10 ELSE 5
CooldownSecondary(n) == IF n > 2 THEN n * 5 ELSE 2

canLaunchPrimary(l, since) ==
    /\ ~l.launchingPrimary
    /\ ~(since < CooldownPrimary(l.failedAttempts))

\* (mutation) the secondary gate forgets the launch already in flight
canLaunchSecondaryIgnoresFlag(l, since) ==
    ~(since < CooldownSecondary(l.failedAttempts))

canLaunchSecondary(l, since) ==
    /\ ~l.launchingSecondary
    /\ ~(since < CooldownSecondary(l.failedAttempts))

\* the state canLaunchPrimary / canLaunchSecondary leaves when it returns true
\* (lastLaunchAttempt = time.Now() is sinceLast' = 0)
SetLaunching(l, isPrimary) ==
    IF isPrimary THEN [l EXCEPT !.launchingPrimary = TRUE]
    ELSE [l EXCEPT !.launchingSecondary = TRUE]

clearLaunchState(l, isPrimary, success) ==
    [launchingPrimary |-> IF isPrimary THEN FALSE ELSE l.launchingPrimary,
     launchingSecondary |-> IF isPrimary THEN l.launchingSecondary ELSE FALSE,
     failedAttempts |-> IF success THEN 0 ELSE l.failedAttempts + 1]

\* the values of time.Since(lastLaunchAttempt) at which a comparison of
\* canLaunchPrimary / canLaunchSecondary changes, failedAttempts staying
\* within the bound
TimePoints == {0} \cup {CooldownPrimary(n) : n \in 0..MaxFailures}
                  \cup {CooldownSecondary(n) : n \in 0..MaxFailures}
MaxElapsed == CHOOSE p \in TimePoints : \A r \in TimePoints : r <= p
GateElapsed == 10 * GateFailures + 1

\* the keepalive task as Launch starts it: session healthy, no ping sent.
\* ctx: its context is cancelled; conn: its QUIC connection is closed;
\* streak: read errors since the last valid pong (history, not in the code);
\* why: what made the task return; got: what ReadControlMessage returned last;
\* stream: the control stream, "open" or "closed"; deadline: a read deadline
\* is set on it
KaInit == [pc |-> "select", healthy |-> TRUE, missed |-> 0, probes |-> 0,
           ctx |-> FALSE, conn |-> FALSE, streak |-> 0, why |-> "none",
           got |-> [err |-> FALSE, opcode |-> 0, nonce |-> 0],
           stream |-> "open", deadline |-> FALSE]

\* launchSession is called: nothing acquired yet.  udp, listener, conn,
\* stream: "none", "open" or "closed"; ctx: the session context is cancelled;
\* closer: the goroutine that closes the listener on ctx.Done();
\* attempt: which launch this is; pending / stray: listeners of earlier
\* failed launches still open, with a cancelled / uncancelled context
LpInit == [pc |-> "stun", udp |-> "none", listener |-> "none", conn |-> "none",
           stream |-> "none", ctx |-> FALSE, closer |-> "none",
           keepalive |-> FALSE, result |-> "none",
           attempt |-> 1, pending |-> 0, stray |-> 0,
           port |-> 0, bound |-> 0]

\* promoteSecondary has just demoted the session and started
\* scheduleDrainCleanup for it.  elapsed: time since the drain timer was
\* created; conn: the QUIC connection is closed; stream: the control stream
\* ("open", "closed" or "nil"); wrote: what sendShutdownSignal did;
\* wroteAt: elapsed when it ran; cancelled: session.Cancel() was called;
\* listed: the session is in cm.sessions; listener: the QUIC listener the
\* session's connection was accepted on
DcInit == [pc |-> "start", elapsed |-> 0, conn |-> FALSE, stream |-> "open",
           wrote |-> "none", wroteAt |-> 0, cancelled |-> FALSE,
           listed |-> TRUE, listener |-> "open"]

\* a client connection has been accepted and handed to the flow handler.
\* ctx: connCtx is cancelled; clientClosed: the client socket is closed;
\* sent: what was written to the QUIC stream; reply: the byte read from it
\* (-1: none); target: the length of the target string; client: the clientConn.Write calls made; failed: the
\* step that failed; spliced: the splicer was started
SfInit == [pc |-> "hello", ctx |-> FALSE, clientClosed |-> FALSE, target |-> 0,
           stream |-> "none", sent |-> <<>>, reply |-> -1, client |-> <<>>,
           failed |-> "none", spliced |-> FALSE]

\* PerformNATHolePunch has started its two goroutines.  sent: datagrams
\* the sender has written; punchDone: the sender closed its channel;
\* receiver: "reading", "offering" (blocked in successChan <- true) or
\* "returned"; main: "select", "draining" (in <-punchDone), "ok" or
\* "timeout"; sentAtSuccess: sent when the select took the success case;
\* deadline: a read deadline is set on the socket (the receiver sets one
\* before each read)
HpInit == [sent |-> 0, punchDone |-> FALSE, receiver |-> "reading",
           main |-> "select", sentAtSuccess |-> 0, deadline |-> TRUE]

\* the splicer has started its two copy goroutines and its cancellation
\* monitor.  dir[d]: "copying", "exiting" (the copy returned, the deferred
\* send on done is still to run) or "finished"; why[d]: what ended it;
\* chunks[d]: buffers copied; done: tokens in the done channel; ctx:
\* copyCtx is cancelled; ext: the caller's context is cancelled; closed:
\* dst.Close() and src.Close() were called; monitor: the cancellation
\* monitor has run; main: where the splicer itself is
Dirs == {"up", "down"}
SpInit == [dir |-> [d \in Dirs |-> "copying"], why |-> [d \in Dirs |-> "none"],
           chunks |-> [d \in Dirs |-> 0], done |-> 0, ctx |-> FALSE,
           ext |-> FALSE, closed |-> FALSE, monitor |-> FALSE,
           main |-> "first"]

\* the front-end's flow handlers, all handed the same session.  session:
\* the fields of that Session and whether its QUIC connection is open;
\* listed: it is in cm.sessions; flow[f]: the handler's position, the step
\* that failed, its QUIC stream and its client socket
HID == 1..NumHandlers
MxNoFlow == [pc |-> "idle", failed |-> "none", stream |-> "none", client |-> "none"]
MxInit == [session |-> [role |-> RolePrimary, healthy |-> TRUE, missed |-> 0,
                        conn |-> "open"],
           listed |-> TRUE,
           flow |-> [f \in HID |-> MxNoFlow]]

\* a control stream.  wire: the bytes written and not yet read; written:
\* the frames written by WritePing, WritePong and WriteShutdown, in order;
\* raw: bytes put on the wire by anything else; out: what
\* ReadControlMessage returned, call by call; taken: the bytes its last
\* call consumed
CxInit == [wire |-> <<>>, written |-> <<>>, raw |-> 0, out |-> <<>>, taken |-> 0]

\* a flow-request stream.  wire: the bytes written and not yet read;
\* written: the targets written by WriteSOCKS5TargetAddress; raw: the wire
\* was filled by something else; fed: the wire as the last call of
\* ReadSOCKS5TargetAddress found it; out: what the calls returned
TfInit == [wire |-> <<>>, written |-> <<>>, raw |-> FALSE, fed |-> <<>>,
           out |-> <<>>]

\* a session's clock.  ttl: Session.TTL (0 until Launch has built the
\* session); started: the session exists; elapsed: time.Since(StartedAt);
\* called: RemainingTTL has been called; last: what its last call returned
TtInit == [ttl |-> 0, started |-> FALSE, elapsed |-> 0, called |-> FALSE,
           last |-> 0]

\* no launch yet.  pc: "idle", "punch" (Launch is in steps 1-5), "accept"
\* (blocked in listener.Accept) or "done"; worker: whether the worker
\* dials after the punch; since: time.Since(lastLaunchAttempt) in seconds;
\* waited: seconds spent in listener.Accept; refused: a monitor tick found
\* no primary and canLaunchPrimary returned false
AcInit == [pc |-> "idle", worker |-> "none", listener |-> "none", ctx |-> FALSE,
           ls |-> [launchingPrimary |-> FALSE, launchingSecondary |-> FALSE,
                   failedAttempts |-> 0],
           since |-> CooldownPrimary(0), waited |-> 0, launches |-> 0,
           result |-> "none", refused |-> FALSE]

\* n: parity of the number of ticks so far; expiring: whether the last
\* tick found primarySession.RemainingTTL() <= OverlapWindow
TkInit == [n |-> 0, expiring |-> FALSE]

\* the watcher has just been started for a healthy secondary.  periods:
\* ticker periods elapsed; tick / timeout: the ticker's and the timer's
\* channel holds a value; ctx: the manager's context is done; closed: the
\* secondary's connection context is done; count: healthCheckCount
PwInit == [pc |-> "watch", periods |-> 0, tick |-> FALSE, timeout |-> FALSE,
           ctx |-> FALSE, closed |-> FALSE, healthy |-> TRUE, count |-> 0]

\* no task is inside a function that locks
LkInit == [pc |-> [t \in {"monitor", "launch", "watcher", "getcurrent", "keepalive", "main"} |-> 0],
           path |-> [t \in {"monitor", "launch", "watcher", "getcurrent", "keepalive", "main"} |-> <<>>]]

\* the session was just accepted: healthy, nothing sent, nothing buffered
LtInit == [pc |-> "tick", nonce |-> 0, out |-> <<>>, in |-> <<>>, missed |-> 0,
           healthy |-> TRUE, got |-> "none"]

\* lastLaunchAttempt is the zero time.Time until the first launch
Init ==
    /\ phase = "new"
    /\ ctxDone = FALSE
    /\ shutdownCh = FALSE
    /\ monitorOn = FALSE
    /\ sess = [s \in SID |-> NoSess]
    /\ sessions = <<>>
    /\ ls = [launchingPrimary |-> FALSE, launchingSecondary |-> FALSE,
             failedAttempts |-> 0]
    /\ sinceLast = MaxElapsed
    /\ tasks = EmptyBag
    /\ watch = [s \in SID |-> NoWatch]
    /\ flow = [f \in FID |-> NoFlow]
    /\ events = 0
    /\ ka = KaInit
    /\ lp = LpInit
    /\ dc = DcInit
    /\ sf = SfInit
    /\ hp = HpInit
    /\ sp = SpInit
    /\ mx = MxInit
    /\ cx = CxInit
    /\ tf = TfInit
    /\ tt = TtInit
    /\ ac = AcInit
    /\ tk = TkInit
    /\ pw = PwInit
    /\ lk = LkInit
    /\ lt = LtInit

\* Launcher.Launch succeeded: a fresh healthy Session with the given role
NewSession(role) == [role |-> role, healthy |-> TRUE, closed |-> FALSE,
                     cancelled |-> FALSE, drain |-> FALSE]

\* ---- Start ----
StartOk ==
    /\ phase = "new"
    /\ ~ctxDone
    /\ FreshSid # NoSession
    /\ sess' = [sess EXCEPT ![FreshSid] = NewSession(RolePrimary)]
    /\ sessions' = <<FreshSid>>
    /\ monitorOn' = TRUE
    /\ phase' = "running"
    /\ UNCHANGED <<ctxDone, shutdownCh, ls, sinceLast, tasks, watch, flow, events>>
    /\ UNCHANGED aux

StartFail ==
    /\ phase = "new"
    /\ phase' = "failed"
    /\ UNCHANGED <<ctxDone, shutdownCh, monitorOn, sess, sessions, ls, sinceLast,
                   tasks, watch, flow, events>>
    /\ UNCHANGED aux

\* ---- the environment ----
\* the context given to Start is cancelled
CancelCtx ==
    /\ phase = "running"
    /\ ~ctxDone
    /\ events < MaxEvents
    /\ events' = events + 1
    /\ ctxDone' = TRUE
    /\ UNCHANGED <<phase, shutdownCh, monitorOn, sess, sessions, ls, sinceLast,
                   tasks, watch, flow>>
    /\ UNCHANGED aux

\* time passes, up to the next cooldown value
Tick ==
    /\ phase = "running"
    /\ sinceLast < MaxElapsed
    /\ sinceLast' = CHOOSE p \in TimePoints :
                       /\ p > sinceLast
                       /\ \A r \in TimePoints : r > sinceLast => p <= r
    /\ UNCHANGED <<phase, ctxDone, shutdownCh, monitorOn, sess, sessions, ls,
                   tasks, watch, flow, events>>
    /\ UNCHANGED aux

\* the peer closes the QUIC connection, or it idles out
PeerClose(s) ==
    /\ s \in Alive
    /\ ~sess[s].closed
    /\ events < MaxEvents
    /\ events' = events + 1
    /\ sess' = [sess EXCEPT ![s].closed = TRUE]
    /\ UNCHANGED <<phase, ctxDone, shutdownCh, monitorOn, sessions, ls, sinceLast,
                   tasks, watch, flow>>
    /\ UNCHANGED aux

\* startHealthCheck: every path that calls SetHealthy(false) returns, so the
\* flag never goes back to true
MarkUnhealthy(s) ==
    /\ s \in Alive
    /\ sess[s].healthy
    /\ events < MaxEvents
    /\ events' = events + 1
    /\ sess' = [sess EXCEPT ![s].healthy = FALSE]
    /\ UNCHANGED <<phase, ctxDone, shutdownCh, monitorOn, sessions, ls, sinceLast,
                   tasks, watch, flow>>
    /\ UNCHANGED aux

\* ---- monitor ----
\* (mutation) the monitor also drops unhealthy sessions that are draining
UnhealthyRemovableAnyRole(ss, s) == ~IsHealthy(ss, s)

UnhealthyRemovable(ss, s) == ~IsHealthy(ss, s) /\ ~IsDraining(ss, s)
Keep(ss, s) == ~ConnDone(ss, s) /\ ~UnhealthyRemovable(ss, s)

\* what checkSessions launches: "P" (primary), "S" (secondary) or "none";
\* expiring: primarySession.RemainingTTL() <= OverlapWindow, as this tick
\* reads it from the clock
\* (mutation) the monitor only rotates: it never replaces a missing primary
LaunchDecisionRotationOnly(active, ss, l, since, expiring) ==
    IF /\ HasPrimary(active, ss)
       /\ expiring
       /\ ~HasSecondary(active, ss)
       /\ Len(active) < 2
       /\ canLaunchSecondary(l, since)
    THEN "S" ELSE "none"

LaunchDecision(active, ss, l, since, expiring) ==
    IF ~HasPrimary(active, ss)
    THEN IF Len(active) < 2 /\ canLaunchPrimary(l, since) THEN "P" ELSE "none"
    ELSE IF /\ expiring
            /\ ~HasSecondary(active, ss)
            /\ Len(active) < 2
            /\ canLaunchSecondary(l, since)
         THEN "S" ELSE "none"

NewTask(kind) == [kind |-> kind, pc |-> "precheck", sid |-> NoSession]

checkSessionsBody(expiring) ==
       LET active == SelectSeq(sessions, LAMBDA s : Keep(sess, s))
           dropped == {s \in Range(sessions) :
                          ~ConnDone(sess, s) /\ UnhealthyRemovable(sess, s)}
           ss1 == [s \in SID |-> IF s \in dropped
                                 THEN [sess[s] EXCEPT !.cancelled = TRUE]
                                 ELSE sess[s]]
           d == LaunchDecision(active, ss1, ls, sinceLast, expiring)
       IN /\ sessions' = active
          /\ IF d = "none"
             THEN UNCHANGED <<ls, sinceLast, tasks>>
             ELSE /\ BagCardinality(tasks) < NumTasks
                  /\ ls' = SetLaunching(ls, d = "P")
                  /\ sinceLast' = 0
                  /\ tasks' = tasks (+) SetToBag({NewTask(d)})
          /\ UNCHANGED <<phase, ctxDone, shutdownCh, monitorOn, watch, flow, events>>
          /\ sess' = ss1

checkSessions ==
    /\ monitorOn
    /\ \E expiring \in BOOLEAN : checkSessionsBody(expiring)
    /\ UNCHANGED aux

\* monitor: case <-ctx.Done(): return
MonitorExit ==
    /\ monitorOn
    /\ ctxDone
    /\ monitorOn' = FALSE
    /\ UNCHANGED <<phase, ctxDone, shutdownCh, sess, sessions, ls, sinceLast,
                   tasks, watch, flow, events>>
    /\ UNCHANGED aux

\* ---- launchPrimarySession / launchSecondarySession ----
\* task x moves on to pc (and holds session sid)
Step(x, pc, sid) ==
    (tasks (-) SetToBag({x})) (+) SetToBag({[kind |-> x.kind, pc |-> pc, sid |-> sid]})

\* (mutation) the primary launch appends without looking for a primary
RedundantNoPrimaryCheck(kind, q, ss) ==
    IF kind = "P" THEN FALSE
    ELSE HasSecondary(q, ss) \/ Len(q) >= 2

\* the guard both launch functions evaluate under the manager lock
Redundant(kind, q, ss) ==
    IF kind = "P" THEN HasPrimary(q, ss)
    ELSE HasSecondary(q, ss) \/ Len(q) >= 2

\* first check under the lock
Precheck(x) ==
    /\ x.pc = "precheck"
    /\ tasks' = Step(x, IF Redundant(x.kind, sessions, sess) THEN "clear" ELSE "launch",
                     NoSession)
    /\ UNCHANGED <<phase, ctxDone, shutdownCh, monitorOn, sess, sessions, ls,
                   sinceLast, watch, flow, events>>
    /\ UNCHANGED aux

\* launchSession returned a session; the role is assigned before the lock
LaunchOk(x) ==
    /\ x.pc = "launch"
    /\ ~ctxDone
    /\ FreshSid # NoSession
    /\ sess' = [sess EXCEPT ![FreshSid] =
                   NewSession(IF x.kind = "P" THEN RolePrimary ELSE RoleSecondary)]
    /\ tasks' = Step(x, "append", FreshSid)
    /\ UNCHANGED <<phase, ctxDone, shutdownCh, monitorOn, sessions, ls, sinceLast,
                   watch, flow, events>>
    /\ UNCHANGED aux

\* launchSession returned an error: only the deferred clearLaunchState runs
\* (the guard bounds failedAttempts: every task adds at most one failure)
LaunchFail(x) ==
    /\ x.pc = "launch"
    /\ ls.failedAttempts + BagCardinality(tasks) <= MaxFailures
    /\ tasks' = Step(x, "deferredFail", NoSession)
    /\ UNCHANGED <<phase, ctxDone, shutdownCh, monitorOn, sess, sessions, ls,
                   sinceLast, watch, flow, events>>
    /\ UNCHANGED aux

\* double-check under the lock, then append or discard
AppendOrDiscard(x) ==
    /\ x.pc = "append"
    /\ tasks' = Step(x, "clear", NoSession)
    /\ UNCHANGED <<phase, ctxDone, shutdownCh, monitorOn, ls, sinceLast, flow, events>>
    /\ IF Redundant(x.kind, sessions, sess)
       THEN /\ UNCHANGED <<sessions, watch>>
            /\ sess' = IF x.kind = "P" THEN CleanupIn(sess, x.sid)
                               ELSE CancelIn(sess, x.sid)
       ELSE /\ sessions' = Append(sessions, x.sid)
            /\ watch' = IF x.kind = "S"
                        THEN [watch EXCEPT ![x.sid] = [pc |-> "watch", count |-> 0]]
                        ELSE watch
            /\ UNCHANGED sess
    /\ UNCHANGED aux

\* the explicit clearLaunchState(kind, true) of the skip and success paths
ClearExplicit(x) ==
    /\ x.pc = "clear"
    /\ ls' = clearLaunchState(ls, x.kind = "P", TRUE)
    /\ tasks' = Step(x, "deferredOk", NoSession)
    /\ UNCHANGED <<phase, ctxDone, shutdownCh, monitorOn, sess, sessions, sinceLast,
                   watch, flow, events>>
    /\ UNCHANGED aux

\* defer cm.clearLaunchState(kind, false): runs when the function returns,
\* on every path
ClearDeferred(x) ==
    /\ x.pc \in {"deferredOk", "deferredFail"}
    /\ ls' = clearLaunchState(ls, x.kind = "P", FALSE)
    /\ tasks' = tasks (-) SetToBag({x})
    /\ UNCHANGED <<phase, ctxDone, shutdownCh, monitorOn, sess, sessions, sinceLast,
                   watch, flow, events>>
    /\ UNCHANGED aux

\* ---- checkForPromotion / promoteSecondary ----
\* case <-ticker.C
WatcherTick(s) ==
    /\ watch[s].pc = "watch"
    /\ watch' = [watch EXCEPT ![s] =
                    IF IsHealthy(sess, s)
                    THEN IF watch[s].count + 1 >= 3
                         THEN [pc |-> "promote", count |-> 0]
                         ELSE [watch[s] EXCEPT !.count = @ + 1]
                    ELSE [watch[s] EXCEPT !.count = 0]]
    /\ UNCHANGED <<phase, ctxDone, shutdownCh, monitorOn, sess, sessions, ls,
                   sinceLast, tasks, flow, events>>
    /\ UNCHANGED aux

\* the other cases of the select: ctx.Done(), the connection's Done(), or the
\* 45 s timeout (which, health never coming back, needs an unhealthy tick)
WatcherStop(s) ==
    /\ watch[s].pc = "watch"
    /\ ctxDone \/ ConnDone(sess, s) \/ ~IsHealthy(sess, s)
    /\ watch' = [watch EXCEPT ![s] = NoWatch]
    /\ UNCHANGED <<phase, ctxDone, shutdownCh, monitorOn, sessions, ls,
                   sinceLast, tasks, flow, events>>
    /\ UNCHANGED sess
    /\ UNCHANGED aux

\* the primary promoteSecondary demotes: the first primary of the list other
\* than the secondary itself
OldPrimary(q, ss, s) ==
    LET I == {i \in 1..Len(q) : q[i] # s /\ IsPrimary(ss, q[i])}
    IN IF I = {} THEN NoSession
       ELSE q[CHOOSE i \in I : \A j \in I : i <= j]

\* (mutation) the old primary is not demoted
SwapKeepsOldPrimary(ss, s, old) ==
    [x \in SID |-> IF x = s THEN [ss[x] EXCEPT !.role = RolePrimary] ELSE ss[x]]

\* (mutation) the old primary and the secondary trade roles
SwapTradesRoles(ss, s, old) ==
    [x \in SID |-> IF x = s THEN [ss[x] EXCEPT !.role = RolePrimary]
                   ELSE IF x = old THEN [ss[x] EXCEPT !.role = RoleSecondary]
                   ELSE ss[x]]

\* the roles promoteSecondary's critical section leaves
Swap(ss, s, old) ==
    [x \in SID |-> IF x = s THEN [ss[x] EXCEPT !.role = RolePrimary]
                   ELSE IF x = old THEN [ss[x] EXCEPT !.role = RoleDraining]
                   ELSE ss[x]]

\* (mutation) promoteSecondary always takes the early return
NoLongerHealthyAlways(ss, s) == TRUE

\* (mutation) promoteSecondary does not look at the secondary's health
NoLongerHealthyIgnored(ss, s) == FALSE

\* promoteSecondary: if !secondary.IsHealthy() { return }
NoLongerHealthy(ss, s) == ~IsHealthy(ss, s)

\* promoteSecondary: the critical section, then startGoroutine for the drain
\* cleanup of the demoted session (refused once shutdownCh is closed)
promoteSecondary(s) ==
    /\ watch[s].pc = "promote"
    /\ watch' = [watch EXCEPT ![s] = NoWatch]
    /\ UNCHANGED <<phase, ctxDone, shutdownCh, monitorOn, sessions, ls, sinceLast,
                   tasks, events>>
    /\ IF NoLongerHealthy(sess, s)
       THEN /\ UNCHANGED flow
            /\ UNCHANGED sess
       ELSE LET old == OldPrimary(sessions, sess, s)
                ss1 == Swap(sess, s, old)
            IN /\ flow' = [f \in FID |->
                             IF flow[f].pc = "open" /\ flow[f].sid = old
                             THEN [flow[f] EXCEPT !.atDemotion = TRUE]
                             ELSE flow[f]]
               /\ sess' = IF old = NoSession \/ shutdownCh THEN ss1
                                  ELSE [ss1 EXCEPT ![old].drain = TRUE]
    /\ UNCHANGED aux

\* scheduleDrainCleanup: the drain timer fires; SHUTDOWN is written to the
\* control stream and the session is cancelled
DrainFire(d) ==
    /\ sess[d].drain
    /\ UNCHANGED <<phase, ctxDone, shutdownCh, monitorOn, sessions, ls, sinceLast,
                   tasks, watch, flow, events>>
    /\ sess' = [CancelIn(sess, d) EXCEPT ![d].drain = FALSE]
    /\ UNCHANGED aux

\* scheduleDrainCleanup: the connection closed before the timer
DrainEnd(d) ==
    /\ sess[d].drain
    /\ ConnDone(sess, d)
    /\ UNCHANGED <<phase, ctxDone, shutdownCh, monitorOn, sessions, ls,
                   sinceLast, tasks, watch, flow, events>>
    /\ sess' = [sess EXCEPT ![d].drain = FALSE]
    /\ UNCHANGED aux

\* ---- shutdown ----
shutdown ==
    /\ phase = "running"
    /\ ctxDone
    /\ shutdownCh' = TRUE
    /\ sessions' = <<>>
    /\ phase' = "stopped"
    /\ UNCHANGED <<ctxDone, monitorOn, ls, sinceLast, tasks, watch, flow, events>>
    /\ sess' = [s \in SID |-> IF s \in Range(sessions)
                                      THEN CleanupIn(sess, s)[s] ELSE sess[s]]
    /\ UNCHANGED aux

\* ---- dispatch ----
\* (mutation) the third pass takes any healthy session
LastResortAnyRole(q, ss) == {i \in 1..Len(q) : IsHealthy(ss, q[i])}

\* the third pass of GetCurrent
LastResort(q, ss) == {i \in 1..Len(q) : IsHealthy(ss, q[i]) /\ ~IsDraining(ss, q[i])}

\* (mutation) the first two passes of GetCurrent in the other order
GetCurrentSecondaryFirst(q, ss) ==
    LET P1 == {i \in 1..Len(q) : IsSecondary(ss, q[i]) /\ IsHealthy(ss, q[i])}
        P2 == {i \in 1..Len(q) : IsPrimary(ss, q[i]) /\ IsHealthy(ss, q[i])}
        P3 == LastResort(q, ss)
        First(I) == q[CHOOSE i \in I : \A j \in I : i <= j]
    IN IF P1 # {} THEN First(P1)
       ELSE IF P2 # {} THEN First(P2)
       ELSE IF P3 # {} THEN First(P3)
       ELSE NoSession

GetCurrent(q, ss) ==
    LET P1 == {i \in 1..Len(q) : IsPrimary(ss, q[i]) /\ IsHealthy(ss, q[i])}
        P2 == {i \in 1..Len(q) : IsSecondary(ss, q[i]) /\ IsHealthy(ss, q[i])}
        P3 == LastResort(q, ss)
        First(I) == q[CHOOSE i \in I : \A j \in I : i <= j]
    IN IF P1 # {} THEN First(P1)
       ELSE IF P2 # {} THEN First(P2)
       ELSE IF P3 # {} THEN First(P3)
       ELSE NoSession

\* the accept loop's test of the session cm.Primary() returned
Eligible(ss, s) == s # NoSession /\ ~IsDraining(ss, s) /\ IsHealthy(ss, s)

\* StartWithConnManagerAndContext: Accept, session := cm.Primary(), then
\* conn.Close() or go handle...(ctx, conn, session)
Accept(f) ==
    /\ phase = "running"
    /\ ~ctxDone
    /\ flow[f].pc = "none"
    /\ LET s == GetCurrent(sessions, sess)
       IN flow' = [flow EXCEPT ![f] =
                      IF Eligible(sess, s)
                      THEN [pc |-> "negotiating", sid |-> s, atDemotion |-> FALSE]
                      ELSE NoFlow]
    /\ UNCHANGED <<phase, ctxDone, shutdownCh, monitorOn, sess, sessions, ls,
                   sinceLast, tasks, watch, events>>
    /\ UNCHANGED aux

\* the session on which the handler opens its stream: the one the accept
\* loop passed in
StreamSession(q, ss, f) == flow[f].sid

\* handleSOCKS5ConnectionWithSessionAndContext, after the SOCKS5 negotiation:
\* session.QuicConn.OpenStreamSync
OpenStream(f) ==
    /\ flow[f].pc = "negotiating"
    /\ LET s == StreamSession(sessions, sess, f)
       IN flow' = [flow EXCEPT ![f] =
                      IF s = NoSession \/ ConnDone(sess, s) \/ ctxDone THEN NoFlow
                      ELSE [pc |-> "open", sid |-> s, atDemotion |-> FALSE]]
    /\ UNCHANGED <<phase, ctxDone, shutdownCh, monitorOn, sessions, ls,
                   sinceLast, tasks, watch, events>>
    /\ UNCHANGED sess
    /\ UNCHANGED aux

\* the handler returns: end of stream, an error, or the client going away
FlowClose(f) ==
    /\ flow[f].pc \in {"negotiating", "open"}
    /\ flow' = [flow EXCEPT ![f] = NoFlow]
    /\ UNCHANGED <<phase, ctxDone, shutdownCh, monitorOn, sessions, ls,
                   sinceLast, tasks, watch, events>>
    /\ UNCHANGED sess
    /\ UNCHANGED aux

\* what the daemon's goroutines do
Daemon ==
    \/ StartOk
    \/ StartFail
    \/ checkSessions
    \/ MonitorExit
    \/ \E x \in BagToSet(tasks) : Precheck(x)
    \/ \E x \in BagToSet(tasks) : LaunchOk(x)
    \/ \E x \in BagToSet(tasks) : LaunchFail(x)
    \/ \E x \in BagToSet(tasks) : AppendOrDiscard(x)
    \/ \E x \in BagToSet(tasks) : ClearExplicit(x)
    \/ \E x \in BagToSet(tasks) : ClearDeferred(x)
    \/ \E s \in SID : WatcherTick(s)
    \/ \E s \in SID : WatcherStop(s)
    \/ \E s \in SID : promoteSecondary(s)
    \/ \E d \in SID : DrainFire(d)
    \/ \E d \in SID : DrainEnd(d)
    \/ shutdown

\* what happens to it
Environment ==
    \/ CancelCtx
    \/ \E s \in SID : PeerClose(s)
    \/ \E s \in SID : MarkUnhealthy(s)

\* the SOCKS5 front-end
Front ==
    \/ \E f \in FID : Accept(f)
    \/ \E f \in FID : OpenStream(f)
    \/ \E f \in FID : FlowClose(f)

Next == Daemon \/ Environment \/ Tick \/ Front

\* the connection manager over time: launches repeat as cooldowns elapse
Spec == Init /\ [][Daemon \/ Environment \/ Tick]_vars

\* the front-end over one cooldown: flows across at most one launch
SpecFlow == Init /\ [][Daemon \/ Environment \/ Front]_vars

\* ---- the launch gate alone ----
\* one second passes
GateSecond ==
    /\ sinceLast < GateElapsed
    /\ sinceLast' = sinceLast + 1
    /\ UNCHANGED <<phase, ctxDone, shutdownCh, monitorOn, sess, sessions, ls,
                   tasks, watch, flow, events>>
    /\ UNCHANGED aux

\* the monitor calls canLaunchPrimary / canLaunchSecondary and is let through
GateLaunch(isPrimary) ==
    /\ IF isPrimary THEN canLaunchPrimary(ls, sinceLast)
       ELSE canLaunchSecondary(ls, sinceLast)
    /\ ls' = SetLaunching(ls, isPrimary)
    /\ sinceLast' = 0
    /\ UNCHANGED <<phase, ctxDone, shutdownCh, monitorOn, sess, sessions,
                   tasks, watch, flow, events>>
    /\ UNCHANGED aux

\* the launch the gate let through ends and calls clearLaunchState
GateDone(isPrimary, success) ==
    /\ IF isPrimary THEN ls.launchingPrimary ELSE ls.launchingSecondary
    /\ success \/ ls.failedAttempts < GateFailures
    /\ ls' = clearLaunchState(ls, isPrimary, success)
    /\ UNCHANGED <<phase, ctxDone, shutdownCh, monitorOn, sess, sessions,
                   sinceLast, tasks, watch, flow, events>>
    /\ UNCHANGED aux

NextGate ==
    \/ GateSecond
    \/ \E isPrimary \in BOOLEAN : GateLaunch(isPrimary)
    \/ \E isPrimary \in BOOLEAN, success \in BOOLEAN : GateDone(isPrimary, success)

SpecGate == Init /\ [][NextGate]_vars

\* ---- the opcodes of the control protocol ----
OpPing == 1
OpPong == 2
OpShutdown == 3

\* ---- the keepalive task alone (startHealthCheck) ----
IncrementMissedPings(n) == n + 1
ResetMissedPings(n) == 0

\* (mutation) two misses are enough
MissLimitReachedAtTwo(n) == n >= 2

\* if missedCount >= 3
MissLimitReached(n) == n >= 3

\* what ReadControlMessage can return: an error, or a frame with one of
\* the three opcodes and, for ping and pong, a nonce
KaFrames ==
    {[err |-> TRUE, opcode |-> 0, nonce |-> 0],
     [err |-> FALSE, opcode |-> OpShutdown, nonce |-> 0]} \cup
    {[err |-> FALSE, opcode |-> o, nonce |-> n] :
        o \in {OpPing, OpPong}, n \in 0..MaxProbes}

\* (mutation) any pong counts, whatever its nonce
NonceMatchesAny(receivedNonce, nonce) == TRUE

\* receivedNonce == nonce
NonceMatches(receivedNonce, nonce) == receivedNonce = nonce

\* the branch startHealthCheck takes on what ReadControlMessage returned;
\* nonce is the local counter, incremented once per tick
ReplyKind(fr, nonce) ==
    IF fr.err THEN "err"
    ELSE IF fr.opcode = OpPong /\ NonceMatches(fr.nonce, nonce) THEN "pong"
    ELSE IF fr.opcode = OpShutdown THEN "shutdown"
    ELSE IF fr.opcode = OpPong THEN "stale"
    ELSE "other"

\* (mutation) the loop goes on after the session was marked unhealthy
KaReturnKeepsLooping(k, why) == [k EXCEPT !.why = why]

\* return: the deferred session.ControlStream.Close() runs
KaReturn(k, why) == [k EXCEPT !.pc = "stopped", !.why = why, !.stream = "closed"]

\* the session's context is cancelled
KaCancel ==
    /\ ka.pc # "stopped"
    /\ ~ka.ctx
    /\ ka' = [ka EXCEPT !.ctx = TRUE]
    /\ UNCHANGED <<coreVars, lp, dc, sf, hp, sp, mx, cx, tf, tt, ac, tk, pw, lk, lt>>

\* the session's QUIC connection closes
KaConnClose ==
    /\ ka.pc # "stopped"
    /\ ~ka.conn
    /\ ka' = [ka EXCEPT !.conn = TRUE]
    /\ UNCHANGED <<coreVars, lp, dc, sf, hp, sp, mx, cx, tf, tt, ac, tk, pw, lk, lt>>

\* select: case <-ctx.Done() / case <-session.QuicConn.Context().Done()
KaStop ==
    /\ ka.pc = "select"
    /\ ka.ctx \/ ka.conn
    /\ ka' = KaReturn(ka, IF ka.ctx THEN "ctx" ELSE "conn")
    /\ UNCHANGED <<coreVars, lp, dc, sf, hp, sp, mx, cx, tf, tt, ac, tk, pw, lk, lt>>

\* select: case <-ticker.C, through WritePing and SetReadDeadline(now + 3 s)
\* into ReadControlMessage
KaPing(ok) ==
    /\ ka.pc = "select"
    /\ ka.probes < MaxProbes
    /\ ka' = IF ka.ctx
             THEN KaReturn(ka, "ctx")
             ELSE IF ok
             THEN [ka EXCEPT !.pc = "read", !.probes = @ + 1, !.deadline = TRUE]
             ELSE KaReturn([ka EXCEPT !.probes = @ + 1, !.healthy = FALSE],
                           "write")
    /\ UNCHANGED <<coreVars, lp, dc, sf, hp, sp, mx, cx, tf, tt, ac, tk, pw, lk, lt>>

\* ReadControlMessage returned fr and SetReadDeadline(time.Time{}) cleared
\* the deadline, to the end of the iteration; the nonce of the ping just
\* sent is the number of pings sent
KaRead(fr) ==
    /\ ka.pc = "read"
    /\ LET reply == ReplyKind(fr, ka.probes)
           k == [ka EXCEPT !.got = fr, !.deadline = FALSE]
       IN ka' = IF ka.ctx
             THEN KaReturn(k, "ctx")
             ELSE IF reply = "err"
             THEN IF MissLimitReached(IncrementMissedPings(ka.missed))
                  THEN KaReturn([k EXCEPT !.missed = IncrementMissedPings(@),
                                          !.streak = @ + 1, !.healthy = FALSE],
                                "misses")
                  ELSE [k EXCEPT !.missed = IncrementMissedPings(@),
                                 !.streak = @ + 1, !.pc = "select"]
             ELSE IF reply = "pong"
             THEN [k EXCEPT !.missed = ResetMissedPings(@), !.streak = 0,
                            !.healthy = TRUE, !.pc = "select"]
             ELSE IF reply = "shutdown"
             THEN KaReturn([k EXCEPT !.healthy = FALSE], "shutdown")
             ELSE [k EXCEPT !.pc = "select"]
    /\ UNCHANGED <<coreVars, lp, dc, sf, hp, sp, mx, cx, tf, tt, ac, tk, pw, lk, lt>>

\* a call made by the task panics: the deferred Close and ticker.Stop run,
\* then the recovering function calls SetHealthy(false).  At "select" the
\* call is one of those before the read deadline is set, at "read" it is
\* SetReadDeadline's successor, ReadControlMessage
KaPanic ==
    /\ ka.pc \in {"select", "read"}
    /\ ka' = KaReturn([ka EXCEPT !.healthy = FALSE], "panic")
    /\ UNCHANGED <<coreVars, lp, dc, sf, hp, sp, mx, cx, tf, tt, ac, tk, pw, lk, lt>>

NextKeepalive ==
    \/ KaPanic
    \/ KaCancel
    \/ KaConnClose
    \/ KaStop
    \/ \E ok \in BOOLEAN : KaPing(ok)
    \/ \E fr \in KaFrames : KaRead(fr)

SpecKeepalive == Init /\ [][NextKeepalive]_vars

\* ---- one launch alone (launchSession, Launch, StartAndAccept) ----
\* the pipeline steps, in order; "tls", "listen" and "accept" are
\* StartAndAccept, "stream" opens the control stream
LpSteps == <<"stun", "socket", "coord", "reply", "punch", "tls", "listen",
             "accept", "stream">>

LpAfter(step) ==
    LET i == CHOOSE j \in 1..Len(LpSteps) : LpSteps[j] = step
    IN IF i = Len(LpSteps) THEN "publish" ELSE LpSteps[i + 1]

\* the local ports the system may hand to ListenUDP with Port: 0
EphemeralPorts == {40001, 40002}

\* (mutation) the listener is bound to a port the system picks
RebindPortEphemeral(l, fresh) == fresh

\* localAddr := udpConn.LocalAddr(); quic.ListenAddr(localAddr.String(), ...)
RebindPort(l, fresh) == l.port

\* what a step acquires (StartAndAccept first closes the UDP socket);
\* fresh: the port the system would pick for a socket bound to port 0.
\* port: the punch socket's local port; bound: the listener's
LpAcquire(step, l, fresh) ==
    IF step = "socket" THEN [l EXCEPT !.udp = "open", !.port = fresh]
    ELSE IF step = "tls" THEN [l EXCEPT !.udp = "closed"]
    ELSE IF step = "listen" THEN [l EXCEPT !.listener = "open", !.closer = "waiting",
                                          !.bound = RebindPort(l, fresh)]
    ELSE IF step = "accept" THEN [l EXCEPT !.conn = "open"]
    ELSE IF step = "stream" THEN [l EXCEPT !.stream = "open"]
    ELSE l

\* what the error path of a step releases before it returns
LpRelease(step, l) ==
    IF step \in {"coord", "reply", "punch"} THEN [l EXCEPT !.udp = "closed"]
    ELSE IF step = "tls" THEN [l EXCEPT !.udp = "closed"]
    ELSE IF step = "stream" THEN [l EXCEPT !.conn = "closed"]
    ELSE l

\* (mutation) launchSession returns the error without cancelling
launchSessionErrNoCancel(l) == [l EXCEPT !.pc = "done"]

\* launchSession: if err != nil { cancel(); return nil, err }
launchSessionErr(l) == [l EXCEPT !.ctx = TRUE, !.pc = "done"]

\* one step of Launch succeeds or fails
LpStep(ok, fresh) ==
    /\ lp.pc \in {LpSteps[i] : i \in 1..Len(LpSteps)}
    /\ lp' = IF ok
             THEN [LpAcquire(lp.pc, lp, fresh) EXCEPT !.pc = LpAfter(lp.pc)]
             ELSE [LpRelease(lp.pc, lp) EXCEPT !.pc = "failed", !.result = "error"]
    /\ UNCHANGED <<coreVars, ka, dc, sf, hp, sp, mx, cx, tf, tt, ac, tk, pw, lk, lt>>

\* Launch builds the Session, starts startHealthCheck and returns it
LpPublish ==
    /\ lp.pc = "publish"
    /\ lp' = [lp EXCEPT !.keepalive = TRUE, !.result = "session", !.pc = "done"]
    /\ UNCHANGED <<coreVars, ka, dc, sf, hp, sp, mx, cx, tf, tt, ac, tk, pw, lk, lt>>

\* Launch returned an error to launchSession
LpFailed ==
    /\ lp.pc = "failed"
    /\ lp' = launchSessionErr(lp)
    /\ UNCHANGED <<coreVars, ka, dc, sf, hp, sp, mx, cx, tf, tt, ac, tk, pw, lk, lt>>

\* the monitor's next tick launches again after a failed launch; the
\* parent context is the same, the session context is a new child of it
LpRetry ==
    /\ lp.pc = "done"
    /\ lp.result = "error"
    /\ lp.attempt < MaxLaunches
    /\ lp' = [LpInit EXCEPT
                !.attempt = lp.attempt + 1,
                !.pending = lp.pending +
                    (IF lp.listener = "open" /\ lp.ctx THEN 1 ELSE 0),
                !.stray = lp.stray +
                    (IF lp.listener = "open" /\ ~lp.ctx THEN 1 ELSE 0)]
    /\ UNCHANGED <<coreVars, ka, dc, sf, hp, sp, mx, cx, tf, tt, ac, tk, pw, lk, lt>>

\* the parent context is cancelled: every child context is done
LpCancel ==
    /\ ~lp.ctx
    /\ lp' = [lp EXCEPT !.ctx = TRUE,
                        !.pending = lp.pending + lp.stray, !.stray = 0]
    /\ UNCHANGED <<coreVars, ka, dc, sf, hp, sp, mx, cx, tf, tt, ac, tk, pw, lk, lt>>

\* the closing goroutine of an earlier launch runs
LpOldCloser ==
    /\ lp.pending > 0
    /\ lp' = [lp EXCEPT !.pending = lp.pending - 1]
    /\ UNCHANGED <<coreVars, ka, dc, sf, hp, sp, mx, cx, tf, tt, ac, tk, pw, lk, lt>>

\* StartAndAccept's goroutine: <-ctx.Done(); listener.Close()
LpCloser ==
    /\ lp.closer = "waiting"
    /\ lp.ctx
    /\ lp' = [lp EXCEPT !.closer = "done", !.listener = "closed"]
    /\ UNCHANGED <<coreVars, ka, dc, sf, hp, sp, mx, cx, tf, tt, ac, tk, pw, lk, lt>>

NextLaunch ==
    \/ \E ok \in BOOLEAN, fresh \in EphemeralPorts : LpStep(ok, fresh)
    \/ LpPublish
    \/ LpFailed
    \/ LpRetry
    \/ LpCancel
    \/ LpCloser
    \/ LpOldCloser

SpecLaunch == Init /\ [][NextLaunch]_vars

\* ---- the monitor tick and GetCurrent on any session list ----
\* a session as it can sit in cm.sessions: a role, the healthy flag and
\* whether its QUIC connection is closed; a draining session whose
\* connection is open still has its drain cleanup pending
ListedSession ==
    {[role |-> r, healthy |-> h, closed |-> c, cancelled |-> FALSE,
      drain |-> (r = RoleDraining /\ ~c)] :
        r \in {RolePrimary, RoleSecondary, RoleDraining},
        h \in BOOLEAN, c \in BOOLEAN}

\* the manager is running with n sessions in the list, at most one of them
\* primary and at most one secondary, no launch in flight
InitList ==
    /\ phase = "running"
    /\ ctxDone = FALSE
    /\ shutdownCh = FALSE
    /\ monitorOn = TRUE
    /\ \E n \in 0..MaxList :
         /\ sessions = [i \in 1..n |-> i]
         /\ sess \in {f \in [SID -> ListedSession \cup {NoSess}] :
                        /\ \A s \in SID : (f[s] = NoSess) <=> (s > n)
                        /\ Cardinality({s \in SID : f[s].role = RolePrimary}) <= 1
                        /\ Cardinality({s \in SID : f[s].role = RoleSecondary}) <= 1}
    /\ \E n \in 0..MaxFailures :
         ls = [launchingPrimary |-> FALSE, launchingSecondary |-> FALSE,
               failedAttempts |-> n]
    /\ sinceLast \in TimePoints
    /\ tasks = EmptyBag
    /\ watch = [s \in SID |-> NoWatch]
    /\ flow = [f \in FID |-> NoFlow]
    /\ events = 0
    /\ ka = KaInit
    /\ lp = LpInit
    /\ dc = DcInit
    /\ sf = SfInit
    /\ hp = HpInit
    /\ sp = SpInit
    /\ mx = MxInit
    /\ cx = CxInit
    /\ tf = TfInit
    /\ tt = TtInit
    /\ ac = AcInit
    /\ tk = TkInit
    /\ pw = PwInit
    /\ lk = LkInit
    /\ lt = LtInit

NextList ==
    \/ checkSessions
    \/ \E s \in SID : MarkUnhealthy(s)
    \/ \E s \in SID : PeerClose(s)
    \/ \E f \in FID : Accept(f)

SpecList == InitList /\ [][NextList]_vars

\* ---- the drain cleanup alone (scheduleDrainCleanup) ----
\* the session's keepalive task returns and closes the control stream
DcStreamClose ==
    /\ dc.stream = "open"
    /\ dc' = [dc EXCEPT !.stream = "closed"]
    /\ UNCHANGED <<coreVars, ka, lp, sf, hp, sp, mx, cx, tf, tt, ac, tk, pw, lk, lt>>

\* timer := time.NewTimer(DrainTimeout), then the select is entered: a
\* connection already closed makes its Done case ready at once
DcSelect ==
    /\ dc.pc = "start"
    /\ dc' = [dc EXCEPT !.pc = IF dc.conn THEN "closed" ELSE "wait"]
    /\ UNCHANGED <<coreVars, ka, lp, sf, hp, sp, mx, cx, tf, tt, ac, tk, pw, lk, lt>>

\* time passes while the select blocks
DcTick ==
    /\ dc.pc = "wait"
    /\ dc.elapsed < DrainTicks
    /\ dc' = [dc EXCEPT !.elapsed = dc.elapsed + 1]
    /\ UNCHANGED <<coreVars, ka, lp, sf, hp, sp, mx, cx, tf, tt, ac, tk, pw, lk, lt>>

\* the QUIC connection closes on its own; a select blocked on its Done
\* channel takes that case
DcConnClose ==
    /\ ~dc.conn
    /\ dc' = [dc EXCEPT !.conn = TRUE,
                        !.pc = IF dc.pc = "wait" THEN "closed" ELSE dc.pc]
    /\ UNCHANGED <<coreVars, ka, lp, sf, hp, sp, mx, cx, tf, tt, ac, tk, pw, lk, lt>>

\* case <-session.QuicConn.Context().Done(): return
DcNatural ==
    /\ dc.pc = "closed"
    /\ dc' = [dc EXCEPT !.pc = "done"]
    /\ UNCHANGED <<coreVars, ka, lp, sf, hp, sp, mx, cx, tf, tt, ac, tk, pw, lk, lt>>

\* (mutation) the timer is created with a zero duration
TimerFiredAtOnce(d) == d.pc = "wait"

\* the drain timer has run for DrainTimeout
TimerFired(d) == d.pc = "wait" /\ d.elapsed = DrainTicks

\* case <-timer.C
DcTimer ==
    /\ TimerFired(dc)
    /\ dc' = [dc EXCEPT !.pc = "signal"]
    /\ UNCHANGED <<coreVars, ka, lp, sf, hp, sp, mx, cx, tf, tt, ac, tk, pw, lk, lt>>

\* sendShutdownSignal: nothing is written without a control stream; the
\* write of the SHUTDOWN opcode fails on a closed stream or connection and
\* may fail otherwise
sendShutdownSignal(d, ok) ==
    [d EXCEPT !.wrote = IF d.stream = "nil" THEN "nostream"
                        ELSE IF d.stream = "closed" \/ d.conn \/ ~ok
                             THEN "failed" ELSE "ok",
              !.wroteAt = d.elapsed,
              !.pc = "sleep"]

DcSignal(ok) ==
    /\ dc.pc = "signal"
    /\ dc' = sendShutdownSignal(dc, ok)
    /\ UNCHANGED <<coreVars, ka, lp, sf, hp, sp, mx, cx, tf, tt, ac, tk, pw, lk, lt>>

\* time.Sleep(500 * time.Millisecond); session.Cancel()
DcCancel ==
    /\ dc.pc = "sleep"
    /\ dc' = [dc EXCEPT !.cancelled = TRUE, !.pc = "done"]
    /\ UNCHANGED <<coreVars, ka, lp, sf, hp, sp, mx, cx, tf, tt, ac, tk, pw, lk, lt>>

\* StartAndAccept's goroutine, once the session context is cancelled:
\* <-ctx.Done(); listener.Close().  Whether closing the listener also
\* closes the connection accepted on it is up to the QUIC library (alsoConn)
DcListenerClose(alsoConn) ==
    /\ dc.cancelled
    /\ dc.listener = "open"
    /\ dc' = [dc EXCEPT !.listener = "closed",
                        !.conn = dc.conn \/ alsoConn]
    /\ UNCHANGED <<coreVars, ka, lp, sf, hp, sp, mx, cx, tf, tt, ac, tk, pw, lk, lt>>

\* a monitor tick: checkSessions drops the session once its connection is
\* closed; unhealthy sessions are kept while they are draining
DcMonitor ==
    /\ dc.listed
    /\ dc.conn
    /\ dc' = [dc EXCEPT !.listed = FALSE]
    /\ UNCHANGED <<coreVars, ka, lp, sf, hp, sp, mx, cx, tf, tt, ac, tk, pw, lk, lt>>

NextDrain ==
    \/ DcStreamClose
    \/ DcSelect
    \/ DcTick
    \/ DcConnClose
    \/ DcNatural
    \/ DcTimer
    \/ \E ok \in BOOLEAN : DcSignal(ok)
    \/ DcCancel
    \/ \E alsoConn \in BOOLEAN : DcListenerClose(alsoConn)
    \/ DcMonitor

SpecDrain == Init /\ [][NextDrain]_vars

\* ---- one SOCKS5 flow alone ----
\* the reply bytes the worker may send: 0x00 is success
ReplyBytes == {0, 1}

\* clientConn.Write(what); its error is not looked at
ClientWrite(f, what) == [f EXCEPT !.client = Append(f.client, what)]

\* the error path of stream open, the two writes and the read:
\* if connCtx.Err() != nil { return }; clientConn.Write(SOCKS5FailureResponse)
FlowError(f, step) ==
    IF f.ctx
    THEN [f EXCEPT !.pc = "return", !.failed = step]
    ELSE [ClientWrite(f, "failure") EXCEPT !.pc = "return", !.failed = step]

\* the flow's context is cancelled (the proxy shuts down)
SfCancel ==
    /\ ~sf.ctx
    /\ sf.pc # "closed"
    /\ sf' = [sf EXCEPT !.ctx = TRUE]
    /\ UNCHANGED <<coreVars, ka, lp, dc, hp, sp, mx, cx, tf, tt, ac, tk, pw, lk, lt>>

\* go func() { <-connCtx.Done(); clientConn.Close() }()
SfCloser ==
    /\ sf.ctx
    /\ ~sf.clientClosed
    /\ sf' = [sf EXCEPT !.clientClosed = TRUE]
    /\ UNCHANGED <<coreVars, ka, lp, dc, hp, sp, mx, cx, tf, tt, ac, tk, pw, lk, lt>>

\* the client hangs up
SfClientGone ==
    /\ ~sf.clientClosed
    /\ sf.pc # "closed"
    /\ sf' = [sf EXCEPT !.clientClosed = TRUE]
    /\ UNCHANGED <<coreVars, ka, lp, dc, hp, sp, mx, cx, tf, tt, ac, tk, pw, lk, lt>>

\* the SOCKS5 greeting and the CONNECT request are read from the client;
\* a read error or an unsupported request ends the flow with no response
SfNegotiate(ok, n) ==
    /\ sf.pc \in {"hello", "request"}
    /\ sf' = IF ok /\ ~sf.clientClosed
             THEN IF sf.pc = "hello"
                  THEN [ClientWrite(sf, "auth") EXCEPT !.pc = "request"]
                  ELSE [sf EXCEPT !.pc = "open", !.target = n]
             ELSE [sf EXCEPT !.pc = "return", !.failed = sf.pc]
    /\ UNCHANGED <<coreVars, ka, lp, dc, hp, sp, mx, cx, tf, tt, ac, tk, pw, lk, lt>>

\* session.QuicConn.OpenStreamSync(connCtx): fails on a cancelled context
SfOpen(ok) ==
    /\ sf.pc = "open"
    /\ sf' = IF ok /\ ~sf.ctx
             THEN [sf EXCEPT !.stream = "open", !.pc = "writeLen"]
             ELSE FlowError(sf, "open")
    /\ UNCHANGED <<coreVars, ka, lp, dc, hp, sp, mx, cx, tf, tt, ac, tk, pw, lk, lt>>

\* stream.Write(targetLenBytes), then stream.Write(targetBytes)
SfWrite(ok) ==
    /\ sf.pc \in {"writeLen", "writeTarget"}
    /\ sf' = IF ok
             THEN [sf EXCEPT !.sent = Append(sf.sent,
                                    <<IF sf.pc = "writeLen" THEN "len" ELSE "target",
                                      sf.target>>),
                             !.pc = IF sf.pc = "writeLen"
                                    THEN "writeTarget" ELSE "read"]
             ELSE FlowError(sf, sf.pc)
    /\ UNCHANGED <<coreVars, ka, lp, dc, hp, sp, mx, cx, tf, tt, ac, tk, pw, lk, lt>>

\* stream.Read(responseBuf) fails
SfReadError ==
    /\ sf.pc = "read"
    /\ sf' = FlowError(sf, "read")
    /\ UNCHANGED <<coreVars, ka, lp, dc, hp, sp, mx, cx, tf, tt, ac, tk, pw, lk, lt>>

\* stream.Read(responseBuf) returns the worker's reply byte b: anything but
\* 0x00 is answered with the failure response, 0x00 with the success
\* response
SfRead(b) ==
    /\ sf.pc = "read"
    /\ sf' = IF b # 0
             THEN [ClientWrite(sf, "failure") EXCEPT
                      !.reply = b, !.pc = "return", !.failed = "reply"]
             ELSE [ClientWrite(sf, "success") EXCEPT
                      !.reply = b, !.pc = "splice"]
    /\ UNCHANGED <<coreVars, ka, lp, dc, hp, sp, mx, cx, tf, tt, ac, tk, pw, lk, lt>>

\* OptimizedCopyWithContextAndMetrics runs until it returns
SfSplice ==
    /\ sf.pc = "splice"
    /\ sf' = [sf EXCEPT !.spliced = TRUE, !.pc = "return"]
    /\ UNCHANGED <<coreVars, ka, lp, dc, hp, sp, mx, cx, tf, tt, ac, tk, pw, lk, lt>>

\* the deferred calls: stream.Close(), cancel(), clientConn.Close()
SfReturn ==
    /\ sf.pc = "return"
    /\ sf' = [sf EXCEPT !.pc = "closed", !.ctx = TRUE, !.clientClosed = TRUE,
                        !.stream = IF sf.stream = "open" THEN "closed"
                                   ELSE sf.stream]
    /\ UNCHANGED <<coreVars, ka, lp, dc, hp, sp, mx, cx, tf, tt, ac, tk, pw, lk, lt>>

NextSocks ==
    \/ SfCancel
    \/ SfCloser
    \/ SfClientGone
    \/ \E ok \in BOOLEAN, n \in 1..MaxTarget : SfNegotiate(ok, n)
    \/ \E ok \in BOOLEAN : SfOpen(ok)
    \/ \E ok \in BOOLEAN : SfWrite(ok)
    \/ SfReadError
    \/ \E b \in ReplyBytes : SfRead(b)
    \/ SfSplice
    \/ SfReturn

SpecSocks == Init /\ [][NextSocks]_vars

\* ---- the UDP puncher alone (PerformNATHolePunch) ----
HolePunchPacketCount == 50

\* the sender: conn.WriteToUDP(PUNCH:<session>:<i>), time.Sleep(interval)
HpSend ==
    /\ hp.sent < HolePunchPacketCount
    /\ hp' = [hp EXCEPT !.sent = hp.sent + 1]
    /\ UNCHANGED <<coreVars, ka, lp, dc, sf, sp, mx, cx, tf, tt, ac, tk, pw, lk, lt>>

\* the sender's loop is over: close(punchDone)
HpSenderDone ==
    /\ hp.sent = HolePunchPacketCount
    /\ ~hp.punchDone
    /\ hp' = [hp EXCEPT !.punchDone = TRUE]
    /\ UNCHANGED <<coreVars, ka, lp, dc, sf, sp, mx, cx, tf, tt, ac, tk, pw, lk, lt>>

\* the receiver: ReadFromUDP returns a PUNCH: datagram from the remote
\* address (matching), or anything else or a read timeout (and the loop
\* sets the next read deadline and reads again)
HpReceive(matching) ==
    /\ hp.receiver = "reading"
    /\ hp' = IF matching THEN [hp EXCEPT !.receiver = "offering"]
             ELSE [hp EXCEPT !.deadline = TRUE]
    /\ UNCHANGED <<coreVars, ka, lp, dc, sf, sp, mx, cx, tf, tt, ac, tk, pw, lk, lt>>

\* select: case <-successChan
HpSuccess ==
    /\ hp.main = "select"
    /\ hp.receiver = "offering"
    /\ hp' = [hp EXCEPT !.main = "draining", !.receiver = "returned",
                        !.sentAtSuccess = hp.sent]
    /\ UNCHANGED <<coreVars, ka, lp, dc, sf, sp, mx, cx, tf, tt, ac, tk, pw, lk, lt>>

\* <-punchDone; conn.SetReadDeadline(time.Time{}); return nil
HpReturnOk ==
    /\ hp.main = "draining"
    /\ hp.punchDone
    /\ hp' = [hp EXCEPT !.main = "ok", !.deadline = FALSE]
    /\ UNCHANGED <<coreVars, ka, lp, dc, sf, sp, mx, cx, tf, tt, ac, tk, pw, lk, lt>>

\* select: case <-time.After(timeout): conn.SetReadDeadline(time.Time{});
\* return the timeout error
HpTimeout ==
    /\ hp.main = "select"
    /\ hp' = [hp EXCEPT !.main = "timeout", !.deadline = FALSE]
    /\ UNCHANGED <<coreVars, ka, lp, dc, sf, sp, mx, cx, tf, tt, ac, tk, pw, lk, lt>>

NextPunch ==
    \/ HpSend
    \/ HpSenderDone
    \/ \E matching \in BOOLEAN : HpReceive(matching)
    \/ HpSuccess
    \/ HpReturnOk
    \/ HpTimeout

SpecPunch == Init /\ [][NextPunch]_vars

\* ---- the bidirectional splicer alone ----
\* copyWithBufferContextAndMetrics: one buffer is read and written
SpCopy(d) ==
    /\ sp.dir[d] = "copying"
    /\ ~sp.closed
    /\ sp.chunks[d] < MaxChunks
    /\ sp' = [sp EXCEPT !.chunks[d] = sp.chunks[d] + 1]
    /\ UNCHANGED <<coreVars, ka, lp, dc, sf, hp, mx, cx, tf, tt, ac, tk, pw, lk, lt>>

\* the copy loop returns: end of stream or an I/O error at any time, the
\* cancelled context at one of its checks, or the error of a read or write
\* on a closed connection
SpCopyEnd(d, cause) ==
    /\ sp.dir[d] = "copying"
    /\ \/ cause \in {"eof", "error"} /\ ~sp.closed
       \/ cause = "ctx" /\ sp.ctx
       \/ cause = "closed" /\ sp.closed
    /\ sp' = [sp EXCEPT !.dir[d] = "exiting", !.why[d] = cause]
    /\ UNCHANGED <<coreVars, ka, lp, dc, sf, hp, mx, cx, tf, tt, ac, tk, pw, lk, lt>>

\* defer func() { done <- struct{}{} }(): done has room for both
SpSignal(d) ==
    /\ sp.dir[d] = "exiting"
    /\ sp' = [sp EXCEPT !.dir[d] = "finished", !.done = sp.done + 1]
    /\ UNCHANGED <<coreVars, ka, lp, dc, sf, hp, mx, cx, tf, tt, ac, tk, pw, lk, lt>>

\* the caller's context is cancelled: copyCtx is its child
SpExternalCancel ==
    /\ ~sp.ext
    /\ sp.main # "returned"
    /\ sp' = [sp EXCEPT !.ext = TRUE, !.ctx = TRUE]
    /\ UNCHANGED <<coreVars, ka, lp, dc, sf, hp, mx, cx, tf, tt, ac, tk, pw, lk, lt>>

\* the monitor goroutine: <-copyCtx.Done(); dst.Close(); src.Close()
SpMonitor ==
    /\ sp.ctx
    /\ ~sp.monitor
    /\ sp' = [sp EXCEPT !.monitor = TRUE, !.closed = TRUE]
    /\ UNCHANGED <<coreVars, ka, lp, dc, sf, hp, mx, cx, tf, tt, ac, tk, pw, lk, lt>>

\* (mutation) the splicer does not wait for the done channel
DoneReadyAlways(s) == TRUE

\* <-done can proceed
DoneReady(s) == s.done > 0

\* <-done (the first), then cancel()
SpFirstDone ==
    /\ sp.main = "first"
    /\ DoneReady(sp)
    /\ sp' = [sp EXCEPT !.done = sp.done - 1, !.ctx = TRUE, !.main = "close"]
    /\ UNCHANGED <<coreVars, ka, lp, dc, sf, hp, mx, cx, tf, tt, ac, tk, pw, lk, lt>>

\* dst.Close(); src.Close()
SpClose ==
    /\ sp.main = "close"
    /\ sp' = [sp EXCEPT !.closed = TRUE, !.main = "second"]
    /\ UNCHANGED <<coreVars, ka, lp, dc, sf, hp, mx, cx, tf, tt, ac, tk, pw, lk, lt>>

\* <-done (the second), then return (the deferred cancel has no effect)
SpSecondDone ==
    /\ sp.main = "second"
    /\ DoneReady(sp)
    /\ sp' = [sp EXCEPT !.done = sp.done - 1, !.main = "returned"]
    /\ UNCHANGED <<coreVars, ka, lp, dc, sf, hp, mx, cx, tf, tt, ac, tk, pw, lk, lt>>

NextSplice ==
    \/ \E d \in Dirs : SpCopy(d)
    \/ \E d \in Dirs, cause \in {"eof", "error", "ctx", "closed"} : SpCopyEnd(d, cause)
    \/ \E d \in Dirs : SpSignal(d)
    \/ SpExternalCancel
    \/ SpMonitor
    \/ SpFirstDone
    \/ SpClose
    \/ SpSecondDone

SpecSplice == Init /\ [][NextSplice]_vars

\* ---- several SOCKS5 flows on one session ----
\* the handler's steps up to the splicer
MxSteps == <<"hello", "request", "open", "writeLen", "writeTarget", "read">>

MxAfter(step) ==
    LET i == CHOOSE j \in 1..Len(MxSteps) : MxSteps[j] = step
    IN IF i = Len(MxSteps) THEN "splice" ELSE MxSteps[i + 1]

\* the steps that use the session's QUIC connection
MxOnStream == {"open", "writeLen", "writeTarget", "read"}

\* StartWithConnManagerAndContext: a client is accepted and handed to a
\* handler goroutine together with the session cm.Primary() returned
MxAccept(f) ==
    /\ mx.flow[f].pc = "idle"
    /\ mx.listed
    /\ mx.session.healthy
    /\ mx.session.role # RoleDraining
    /\ mx' = [mx EXCEPT !.flow[f] = [MxNoFlow EXCEPT !.pc = "hello", !.client = "open"]]
    /\ UNCHANGED <<coreVars, ka, lp, dc, sf, hp, sp, cx, tf, tt, ac, tk, pw, lk, lt>>

\* (mutation) a failed flow marks its session unhealthy
FlowFailedMarksSession(m, f, step) ==
    [m EXCEPT !.flow[f].failed = step, !.flow[f].pc = "return",
              !.session.healthy = FALSE]

\* an error path of the handler: log, possibly answer the client, return
FlowFailed(m, f, step) ==
    [m EXCEPT !.flow[f].failed = step, !.flow[f].pc = "return"]

\* one step of the handler succeeds or fails; nothing on the session's
\* connection succeeds once that connection is closed
MxStep(f, ok) ==
    /\ mx.flow[f].pc \in {MxSteps[i] : i \in 1..Len(MxSteps)}
    /\ LET step == mx.flow[f].pc
           good == ok /\ (step \in MxOnStream => mx.session.conn = "open")
       IN mx' = IF good
                THEN [mx EXCEPT !.flow[f].pc = MxAfter(step),
                                !.flow[f].stream = IF step = "open" THEN "open"
                                                   ELSE mx.flow[f].stream]
                ELSE FlowFailed(mx, f, step)
    /\ UNCHANGED <<coreVars, ka, lp, dc, sf, hp, sp, cx, tf, tt, ac, tk, pw, lk, lt>>

\* the splicer returns, after an end of stream (ok) or an error; it has
\* closed the client socket and the stream adapter
MxSplice(f, ok) ==
    /\ mx.flow[f].pc = "splice"
    /\ LET m1 == [mx EXCEPT !.flow[f].stream = "closed", !.flow[f].client = "closed"]
       IN mx' = IF ok /\ mx.session.conn = "open"
                THEN [m1 EXCEPT !.flow[f].pc = "return"]
                ELSE FlowFailed(m1, f, "splice")
    /\ UNCHANGED <<coreVars, ka, lp, dc, sf, hp, sp, cx, tf, tt, ac, tk, pw, lk, lt>>

\* the deferred calls: stream.Close(), cancel(), clientConn.Close()
MxReturn(f) ==
    /\ mx.flow[f].pc = "return"
    /\ mx' = [mx EXCEPT !.flow[f].pc = "closed",
                        !.flow[f].client = "closed",
                        !.flow[f].stream = IF mx.flow[f].stream = "none"
                                           THEN "none" ELSE "closed"]
    /\ UNCHANGED <<coreVars, ka, lp, dc, sf, hp, sp, cx, tf, tt, ac, tk, pw, lk, lt>>

\* the session's keepalive task: a probe is answered or missed
MxProbe(ok) ==
    /\ mx.session.healthy
    /\ mx.session.conn = "open"
    /\ LET n == IF ok THEN ResetMissedPings(mx.session.missed)
                ELSE IncrementMissedPings(mx.session.missed)
       IN mx' = [mx EXCEPT !.session.missed = n,
                           !.session.healthy = ~MissLimitReached(n)]
    /\ UNCHANGED <<coreVars, ka, lp, dc, sf, hp, sp, cx, tf, tt, ac, tk, pw, lk, lt>>

\* the session's QUIC connection closes
MxConnClose ==
    /\ mx.session.conn = "open"
    /\ mx' = [mx EXCEPT !.session.conn = "closed"]
    /\ UNCHANGED <<coreVars, ka, lp, dc, sf, hp, sp, cx, tf, tt, ac, tk, pw, lk, lt>>

\* checkSessions drops the session when it is closed or unhealthy
MxMonitor ==
    /\ mx.listed
    /\ mx.session.conn = "closed" \/ ~mx.session.healthy
    /\ mx' = [mx EXCEPT !.listed = FALSE]
    /\ UNCHANGED <<coreVars, ka, lp, dc, sf, hp, sp, cx, tf, tt, ac, tk, pw, lk, lt>>

NextFlows ==
    \/ \E f \in HID : MxAccept(f)
    \/ \E f \in HID, ok \in BOOLEAN : MxStep(f, ok)
    \/ \E f \in HID, ok \in BOOLEAN : MxSplice(f, ok)
    \/ \E f \in HID : MxReturn(f)
    \/ \E ok \in BOOLEAN : MxProbe(ok)
    \/ MxConnClose
    \/ MxMonitor

SpecFlows == Init /\ [][NextFlows]_vars

\* ---- the control-frame codec ----

\* a uint64 is held as four 16-bit words, most significant first
Nonces == {<<0, 0, 0, 0>>, <<258, 772, 1286, 1800>>,
           <<65535, 65535, 65535, 65535>>}
ZeroNonce == <<0, 0, 0, 0>>

\* binary.BigEndian.PutUint64
writeUint64(v) ==
    <<v[1] \div 256, v[1] % 256, v[2] \div 256, v[2] % 256,
      v[3] \div 256, v[3] % 256, v[4] \div 256, v[4] % 256>>

\* (mutation) the nonce is decoded least significant byte first
readUint64LittleEndian(b) ==
    <<b[8] * 256 + b[7], b[6] * 256 + b[5], b[4] * 256 + b[3], b[2] * 256 + b[1]>>

\* binary.BigEndian.Uint64
readUint64(b) ==
    <<b[1] * 256 + b[2], b[3] * 256 + b[4], b[5] * 256 + b[6], b[7] * 256 + b[8]>>

WritePing(nonce) == <<OpPing>> \o writeUint64(nonce)
WritePong(nonce) == <<OpPong>> \o writeUint64(nonce)
WriteShutdown == <<OpShutdown>>

\* the frames the writers can produce, and the bytes each puts on the wire
Frames == {[op |-> o, nonce |-> n] : o \in {OpPing, OpPong}, n \in Nonces}
              \cup {[op |-> OpShutdown, nonce |-> ZeroNonce]}
Encode(fr) ==
    IF fr.op = OpPing THEN WritePing(fr.nonce)
    ELSE IF fr.op = OpPong THEN WritePong(fr.nonce)
    ELSE WriteShutdown

\* (mutation) the switch has no default case
KnownOpcodeAny(op) == TRUE

\* the cases of ReadControlMessage's switch
KnownOpcode(op) == op \in {OpPing, OpPong, OpShutdown}
HasNonce(op) == op \in {OpPing, OpPong}

\* ReadControlMessage on the bytes w: the opcode, the nonce, whether an
\* error is returned, and how many bytes were consumed.  A read that runs
\* out of bytes consumes what there was
ReadControlMessage(w) ==
    IF Len(w) = 0
    THEN [opcode |-> 0, nonce |-> ZeroNonce, err |-> TRUE, used |-> 0]
    ELSE LET opcode == w[1]
         IN IF HasNonce(opcode)
            THEN IF Len(w) < 9
                 THEN [opcode |-> opcode, nonce |-> ZeroNonce, err |-> TRUE,
                       used |-> Len(w)]
                 ELSE [opcode |-> opcode,
                       nonce |-> readUint64(SubSeq(w, 2, 9)),
                       err |-> FALSE, used |-> 9]
            ELSE IF KnownOpcode(opcode)
                 THEN [opcode |-> opcode, nonce |-> ZeroNonce, err |-> FALSE,
                       used |-> 1]
                 ELSE [opcode |-> opcode, nonce |-> ZeroNonce, err |-> TRUE,
                       used |-> 1]

\* one of the writers puts a frame on the wire
CxWrite(fr) ==
    /\ Len(cx.written) < MaxFrames
    /\ cx' = [cx EXCEPT !.wire = cx.wire \o Encode(fr),
                        !.written = Append(cx.written, fr)]
    /\ UNCHANGED <<coreVars, ka, lp, dc, sf, hp, sp, mx, tf, tt, ac, tk, pw, lk, lt>>

\* bytes the peer may send without the writers: an opcode byte nobody defined
RawBytes == {0, 4, 255}
CxRaw(b) ==
    /\ cx.raw < MaxRaw
    /\ cx' = [cx EXCEPT !.wire = Append(cx.wire, b), !.raw = cx.raw + 1]
    /\ UNCHANGED <<coreVars, ka, lp, dc, sf, hp, sp, mx, tf, tt, ac, tk, pw, lk, lt>>

\* one call of ReadControlMessage
CxRead ==
    /\ Len(cx.wire) > 0
    /\ LET r == ReadControlMessage(cx.wire)
       IN cx' = [cx EXCEPT
                   !.wire = SubSeq(cx.wire, r.used + 1, Len(cx.wire)),
                   !.out = Append(cx.out, [opcode |-> r.opcode, nonce |-> r.nonce,
                                           err |-> r.err]),
                   !.taken = r.used]
    /\ UNCHANGED <<coreVars, ka, lp, dc, sf, hp, sp, mx, tf, tt, ac, tk, pw, lk, lt>>

NextCodec ==
    \/ \E fr \in Frames : CxWrite(fr)
    \/ \E b \in RawBytes : CxRaw(b)
    \/ CxRead

SpecCodec == Init /\ [][NextCodec]_vars

\* ---- the flow-request framing ----
MaxTargetAddressLength == 1024

\* fmt.Sprintf("%d", n) as character codes
RECURSIVE Decimal(_)
Decimal(n) ==
    IF n < 10 THEN <<48 + n>> ELSE Append(Decimal(n \div 10), 48 + (n % 10))

\* the front-end's target: "%d.%d.%d.%d" of an IPv4 address or the domain
\* name's bytes, then ":" and the port
ComposeTarget(host, port) ==
    LET addr == IF host.kind = "ipv4"
                THEN Decimal(host.b[1]) \o <<46>> \o Decimal(host.b[2]) \o <<46>>
                     \o Decimal(host.b[3]) \o <<46>> \o Decimal(host.b[4])
                ELSE host.b
    IN addr \o <<58>> \o Decimal(port)

\* the CONNECT requests tried: two IPv4 addresses, a domain name and the
\* empty domain name; the ports
Hosts == {[kind |-> "ipv4", b |-> <<10, 0, 0, 1>>],
          [kind |-> "ipv4", b |-> <<255, 255, 255, 255>>],
          [kind |-> "domain", b |-> <<97, 46, 98>>],
          [kind |-> "domain", b |-> <<>>]}
Ports == {0, 443, 65535}

\* binary.BigEndian.PutUint32 of a length below 2^16
PutUint32(n) == <<0, 0, n \div 256, n % 256>>

\* binary.BigEndian.Uint32 as two 16-bit words, most significant first
Uint32(b) == <<b[1] * 256 + b[2], b[3] * 256 + b[4]>>

\* (mutation) no limit on the declared length
TooLongNever(w) == FALSE

\* targetLen > MaxTargetAddressLength
TooLong(w) == w[1] > 0 \/ w[2] > MaxTargetAddressLength

WriteSOCKS5TargetAddress(target) == PutUint32(Len(target)) \o target

\* ReadSOCKS5TargetAddress on the bytes w: the target, whether an error is
\* returned, and how many bytes were consumed
ReadSOCKS5TargetAddress(w) ==
    IF Len(w) < 4
    THEN [target |-> <<>>, err |-> TRUE, used |-> Len(w)]
    ELSE LET targetLen == Uint32(SubSeq(w, 1, 4))
         IN IF TooLong(targetLen)
            THEN [target |-> <<>>, err |-> TRUE, used |-> 4]
            ELSE IF Len(w) < 4 + targetLen[2]
                 THEN [target |-> <<>>, err |-> TRUE, used |-> Len(w)]
                 ELSE IF targetLen[2] = 0
                      THEN [target |-> <<>>, err |-> TRUE, used |-> 4]
                      ELSE [target |-> SubSeq(w, 5, 4 + targetLen[2]),
                            err |-> FALSE, used |-> 4 + targetLen[2]]

\* the front-end composes a target and writes it
TfWrite(host, port) ==
    /\ ~tf.raw
    /\ Len(tf.written) < MaxTargets
    /\ LET target == ComposeTarget(host, port)
       IN tf' = [tf EXCEPT !.wire = tf.wire \o WriteSOCKS5TargetAddress(target),
                           !.written = Append(tf.written, target)]
    /\ UNCHANGED <<coreVars, ka, lp, dc, sf, hp, sp, mx, cx, tt, ac, tk, pw, lk, lt>>

\* what a peer may send instead: a length field cut short, or a length
\* field followed by some bytes
RawHeaders == {<<>>, <<0>>, <<0, 0>>, <<0, 0, 4>>,
               <<0, 0, 0, 0>>, <<0, 0, 0, 3>>, <<0, 0, 4, 0>>, <<0, 0, 4, 1>>,
               <<0, 1, 0, 0>>, <<255, 255, 255, 255>>}
RawBodies == {0, 3, 1024, 1025}
TfRaw(hdr, m) ==
    /\ ~tf.raw
    /\ tf.written = <<>>
    /\ tf' = [tf EXCEPT !.wire = hdr \o [i \in 1..m |-> 120], !.raw = TRUE]
    /\ UNCHANGED <<coreVars, ka, lp, dc, sf, hp, sp, mx, cx, tt, ac, tk, pw, lk, lt>>

\* one call of ReadSOCKS5TargetAddress
TfRead ==
    /\ Len(tf.out) < MaxTargets
    /\ tf.raw \/ Len(tf.wire) > 0
    /\ LET r == ReadSOCKS5TargetAddress(tf.wire)
       IN tf' = [tf EXCEPT
                   !.fed = tf.wire,
                   !.wire = SubSeq(tf.wire, r.used + 1, Len(tf.wire)),
                   !.out = Append(tf.out, [target |-> r.target, err |-> r.err])]
    /\ UNCHANGED <<coreVars, ka, lp, dc, sf, hp, sp, mx, cx, tt, ac, tk, pw, lk, lt>>

NextFraming ==
    \/ \E host \in Hosts, port \in Ports : TfWrite(host, port)
    \/ \E hdr \in RawHeaders, m \in RawBodies : TfRaw(hdr, m)
    \/ TfRead

SpecFraming == Init /\ [][NextFraming]_vars

\* ---- Session.RemainingTTL ----
\* a time.Duration is a signed integer of fixed width, here with the
\* values -(DurMax + 1) .. DurMax; subtraction wraps around
WrapDuration(x) == ((x + DurMax + 1) % (2 * (DurMax + 1))) - (DurMax + 1)

\* (mutation) the difference is returned as it is
RemainingTTLUnclamped(ttl, elapsed) == WrapDuration(ttl - elapsed)

RemainingTTL(ttl, elapsed) ==
    LET remaining == WrapDuration(ttl - elapsed)
    IN IF remaining < 0 THEN 0 ELSE remaining

\* Launch builds the session: StartedAt is now, TTL is the mode's SessionTTL
TtStart(ttl) ==
    /\ ~tt.started
    /\ tt' = [tt EXCEPT !.started = TRUE, !.ttl = ttl]
    /\ UNCHANGED <<coreVars, ka, lp, dc, sf, hp, sp, mx, cx, tf, ac, tk, pw, lk, lt>>

\* time passes; time.Since saturates at the largest Duration
TtTick ==
    /\ tt.started
    /\ tt.elapsed < DurMax
    /\ tt' = [tt EXCEPT !.elapsed = tt.elapsed + 1]
    /\ UNCHANGED <<coreVars, ka, lp, dc, sf, hp, sp, mx, cx, tf, ac, tk, pw, lk, lt>>

\* the monitor (or the dashboard) calls RemainingTTL
TtCall ==
    /\ tt.started
    /\ tt' = [tt EXCEPT !.called = TRUE, !.last = RemainingTTL(tt.ttl, tt.elapsed)]
    /\ UNCHANGED <<coreVars, ka, lp, dc, sf, hp, sp, mx, cx, tf, ac, tk, pw, lk, lt>>

NextTTL ==
    \/ \E ttl \in 1..DurMax : TtStart(ttl)
    \/ TtTick
    \/ TtCall

SpecTTL == Init /\ [][NextTTL]_vars

\* ---- a primary launch in StartAndAccept, with time ----
QUICHandshakeTimeout == 10

\* the largest time.Since(lastLaunchAttempt) that matters to the cooldown
AcSinceMax == CooldownPrimary(MaxLaunches + 1) + 1

\* checkSessions with no primary: canLaunchPrimary, then the goroutine
\* launchPrimarySession starts; the monitor has returned on ctx.Done()
AcMonitor ==
    /\ ~ac.ctx
    /\ ac.result # "session"
    /\ ac.launches < MaxLaunches
    /\ ac' = IF canLaunchPrimary(ac.ls, ac.since)
             THEN [ac EXCEPT !.ls = SetLaunching(ac.ls, TRUE), !.since = 0,
                             !.pc = "punch", !.worker = "none",
                             !.listener = "none", !.waited = 0,
                             !.result = "none", !.refused = FALSE,
                             !.launches = ac.launches + 1]
             ELSE [ac EXCEPT !.refused = TRUE]
    /\ UNCHANGED <<coreVars, ka, lp, dc, sf, hp, sp, mx, cx, tf, tt, tk, pw, lk, lt>>

\* Launch steps 1-5.  A step fails: Launch returns the error and the
\* deferred clearLaunchState(true, false) runs.  The punch succeeds:
\* StartAndAccept listens and calls listener.Accept(ctx); the worker
\* either dials later or never does
AcPunch(ok, worker) ==
    /\ ac.pc = "punch"
    /\ ac' = IF ok
             THEN [ac EXCEPT !.pc = "accept", !.worker = worker,
                             !.listener = "open", !.waited = 0]
             ELSE [ac EXCEPT !.pc = "done", !.result = "error",
                             !.ls = clearLaunchState(ac.ls, TRUE, FALSE)]
    /\ UNCHANGED <<coreVars, ka, lp, dc, sf, hp, sp, mx, cx, tf, tt, tk, pw, lk, lt>>

\* a second passes; nothing in StartAndAccept arms a timer
AcTick ==
    /\ \/ ac.since < AcSinceMax
       \/ ac.pc = "accept" /\ ac.waited < AcceptTicks
    /\ ac' = [ac EXCEPT
                !.since = IF ac.since < AcSinceMax THEN ac.since + 1 ELSE ac.since,
                !.waited = IF ac.pc = "accept" /\ ac.waited < AcceptTicks
                           THEN ac.waited + 1 ELSE ac.waited]
    /\ UNCHANGED <<coreVars, ka, lp, dc, sf, hp, sp, mx, cx, tf, tt, tk, pw, lk, lt>>

\* the worker dials: Accept returns the connection, Launch opens the
\* control stream and returns the Session, launchPrimarySession appends it
\* and calls clearLaunchState(true, true)
AcAccepted ==
    /\ ac.pc = "accept"
    /\ ac.worker = "dials"
    /\ ac.listener = "open"
    /\ ~ac.ctx
    /\ ac' = [ac EXCEPT !.pc = "done", !.result = "session",
                        !.ls = clearLaunchState(ac.ls, TRUE, TRUE)]
    /\ UNCHANGED <<coreVars, ka, lp, dc, sf, hp, sp, mx, cx, tf, tt, tk, pw, lk, lt>>

\* the manager's context is cancelled
AcCancel ==
    /\ ~ac.ctx
    /\ ac' = [ac EXCEPT !.ctx = TRUE]
    /\ UNCHANGED <<coreVars, ka, lp, dc, sf, hp, sp, mx, cx, tf, tt, tk, pw, lk, lt>>

\* StartAndAccept's goroutine: <-ctx.Done(); listener.Close()
AcCloser ==
    /\ ac.ctx
    /\ ac.listener = "open"
    /\ ac' = [ac EXCEPT !.listener = "closed"]
    /\ UNCHANGED <<coreVars, ka, lp, dc, sf, hp, sp, mx, cx, tf, tt, tk, pw, lk, lt>>

\* listener.Accept(ctx) returns an error: the context is done (or the
\* listener was closed, which only the goroutine above does); Launch
\* returns it and the deferred clearLaunchState(true, false) runs
AcAcceptErr ==
    /\ ac.pc = "accept"
    /\ ac.ctx \/ ac.listener = "closed"
    /\ ac' = [ac EXCEPT !.pc = "done", !.result = "error",
                        !.ls = clearLaunchState(ac.ls, TRUE, FALSE)]
    /\ UNCHANGED <<coreVars, ka, lp, dc, sf, hp, sp, mx, cx, tf, tt, tk, pw, lk, lt>>

NextAccept ==
    \/ AcMonitor
    \/ \E ok \in BOOLEAN, worker \in {"dials", "silent"} : AcPunch(ok, worker)
    \/ AcTick
    \/ AcAccepted
    \/ AcCancel
    \/ AcCloser
    \/ AcAcceptErr

SpecAccept == Init /\ [][NextAccept]_vars

\* ---- the monitor tick with its reading of the primary's TTL ----
\* monitor: case <-ticker.C: cm.checkSessions(ctx)
MonitorTick ==
    /\ monitorOn
    /\ \E expiring \in BOOLEAN :
         /\ checkSessionsBody(expiring)
         /\ tk' = [n |-> 1 - tk.n, expiring |-> expiring]
    /\ UNCHANGED <<ka, lp, dc, sf, hp, sp, mx, cx, tf, tt, ac, pw, lk, lt>>

NextMonitor ==
    \/ MonitorTick
    \/ Tick

SpecMonitor == InitList /\ [][NextMonitor]_vars

\* ---- one promotion watcher (checkForPromotion) with time ----
PromotionTickSeconds == 5
PromotionTimeoutSeconds == 45
PromotionChecks == 3

\* a ticker period passes while the watcher is blocked in its select: the
\* ticker delivers a tick, and the timer fires once 45 s have passed
PwPeriod ==
    /\ pw.pc = "watch"
    /\ ~pw.tick /\ ~pw.timeout /\ ~pw.ctx /\ ~pw.closed
    /\ pw.periods < MaxWatchTicks
    /\ pw' = [pw EXCEPT !.periods = pw.periods + 1, !.tick = TRUE,
                        !.timeout = (pw.periods + 1) * PromotionTickSeconds
                                        >= PromotionTimeoutSeconds]
    /\ UNCHANGED <<coreVars, ka, lp, dc, sf, hp, sp, mx, cx, tf, tt, ac, tk, lk, lt>>

\* the keepalive task calls SetHealthy(false) and returns
PwUnhealthy ==
    /\ pw.pc = "watch"
    /\ pw.healthy
    /\ pw' = [pw EXCEPT !.healthy = FALSE]
    /\ UNCHANGED <<coreVars, ka, lp, dc, sf, hp, sp, mx, cx, tf, tt, ac, tk, lk, lt>>

\* the manager's context is cancelled
PwCancel ==
    /\ pw.pc = "watch"
    /\ ~pw.ctx
    /\ pw' = [pw EXCEPT !.ctx = TRUE]
    /\ UNCHANGED <<coreVars, ka, lp, dc, sf, hp, sp, mx, cx, tf, tt, ac, tk, lk, lt>>

\* the secondary's transport closes
PwConnClose ==
    /\ pw.pc = "watch"
    /\ ~pw.closed
    /\ pw' = [pw EXCEPT !.closed = TRUE]
    /\ UNCHANGED <<coreVars, ka, lp, dc, sf, hp, sp, mx, cx, tf, tt, ac, tk, lk, lt>>

\* select: a case that can proceed is chosen, whichever else is ready
TickerChosen(w) == w.tick

\* case <-ticker.C
PwTick ==
    /\ pw.pc = "watch"
    /\ TickerChosen(pw)
    /\ pw' = IF pw.healthy
             THEN IF pw.count + 1 >= PromotionChecks
                  THEN [pw EXCEPT !.tick = FALSE, !.count = pw.count + 1,
                                  !.pc = "promote"]
                  ELSE [pw EXCEPT !.tick = FALSE, !.count = pw.count + 1]
             ELSE [pw EXCEPT !.tick = FALSE, !.count = 0]
    /\ UNCHANGED <<coreVars, ka, lp, dc, sf, hp, sp, mx, cx, tf, tt, ac, tk, lk, lt>>

\* case <-timeout.C, case <-ctx.Done(), case <-secondary.QuicConn.Context().Done()
PwStop(why) ==
    /\ pw.pc = "watch"
    /\ \/ why = "timeout" /\ pw.timeout
       \/ why = "ctx" /\ pw.ctx
       \/ why = "closed" /\ pw.closed
    /\ pw' = [pw EXCEPT !.pc = why]
    /\ UNCHANGED <<coreVars, ka, lp, dc, sf, hp, sp, mx, cx, tf, tt, ac, tk, lk, lt>>

\* cm.promoteSecondary(secondary); return
PwPromote ==
    /\ pw.pc = "promote"
    /\ pw' = [pw EXCEPT !.pc = IF pw.healthy THEN "promoted" ELSE "aborted"]
    /\ UNCHANGED <<coreVars, ka, lp, dc, sf, hp, sp, mx, cx, tf, tt, ac, tk, lk, lt>>

NextWatcher ==
    \/ PwPeriod
    \/ PwUnhealthy
    \/ PwCancel
    \/ PwConnClose
    \/ PwTick
    \/ \E why \in {"timeout", "ctx", "closed"} : PwStop(why)
    \/ PwPromote

SpecWatcher == Init /\ [][NextWatcher]_vars

\* ---- the mutexes: cm.mu, cm.launchState.mu, Session.healthMutex ----
\* Each task runs the lock operations of its functions in program order.
LkThreads == {"monitor", "launch", "watcher", "getcurrent", "keepalive", "main"}

LkOp(op, m, fn) == [op |-> op, m |-> m, fn |-> fn]

\* Session.IsHealthy: healthMutex.RLock, deferred RUnlock
IsHealthyLocks == <<LkOp("RLock", "hm", "IsHealthy"), LkOp("RUnlock", "hm", "IsHealthy")>>

\* Session.SetHealthy, IncrementMissedPings, ResetMissedPings
SetHealthyLocks == <<LkOp("Lock", "hm", "SetHealthy"), LkOp("Unlock", "hm", "SetHealthy")>>

\* canLaunchPrimary, canLaunchSecondary, clearLaunchState
launchStateLocks(fn) == <<LkOp("Lock", "ls", fn), LkOp("Unlock", "ls", fn)>>

\* a section under cm.mu.Lock() with the operations inside it
muSection(fn, inside) ==
    <<LkOp("Lock", "mu", fn)>> \o inside \o <<LkOp("Unlock", "mu", fn)>>

\* startGoroutine: cm.mu.Lock(), deferred Unlock; the task body runs in
\* its own goroutine
startGoroutineLocks == muSection("startGoroutine", <<>>)

\* checkSessions: the whole tick under cm.mu; IsHealthy per session, then
\* the launch gate on the branches that reach it
checkSessionsLocks ==
    { muSection("checkSessions", IsHealthyLocks),
      muSection("checkSessions", IsHealthyLocks \o launchStateLocks("canLaunch")),
      muSection("checkSessions", launchStateLocks("canLaunch")) }

\* launchPrimarySession / launchSecondarySession: the guard section, the
\* append section, clearLaunchState after each unlock, and the deferred
\* clearLaunchState last
launchSessionLocks ==
    { muSection("launch", <<>>) \o launchStateLocks("clearLaunchState")
          \o launchStateLocks("clearLaunchState"),
      muSection("launch", <<>>) \o launchStateLocks("clearLaunchState"),
      muSection("launch", <<>>) \o muSection("launch", <<>>)
          \o launchStateLocks("clearLaunchState")
          \o launchStateLocks("clearLaunchState") }

\* (mutation) the drain cleanup is started inside the critical section
promoteSecondaryLocksSpawnInside ==
    { muSection("promoteSecondary", IsHealthyLocks),
      muSection("promoteSecondary", IsHealthyLocks \o startGoroutineLocks) }

\* promoteSecondary: the closure under cm.mu with IsHealthy inside; the
\* drain cleanup is started after the closure returned
promoteSecondaryLocks ==
    { muSection("promoteSecondary", IsHealthyLocks),
      muSection("promoteSecondary", IsHealthyLocks) \o startGoroutineLocks }

\* checkForPromotion: IsHealthy on a tick, promoteSecondary on the third
checkForPromotionLocks ==
    {IsHealthyLocks} \cup {IsHealthyLocks \o p : p \in promoteSecondaryLocks}

\* GetCurrent: cm.mu.RLock, IsHealthy per session, deferred RUnlock
GetCurrentLocks ==
    { <<LkOp("RLock", "mu", "GetCurrent")>> \o IsHealthyLocks
          \o <<LkOp("RUnlock", "mu", "GetCurrent")>> }

\* Start: the list is set under cm.mu, then the monitor is started;
\* shutdown: the list is cleared under cm.mu, cleanupSession takes no lock
StartLocks ==
    { muSection("Start", <<>>) \o startGoroutineLocks,
      muSection("shutdown", <<>>) }

LkPaths(t) ==
    CASE t = "monitor" -> checkSessionsLocks
      [] t = "launch" -> launchSessionLocks
      [] t = "watcher" -> checkForPromotionLocks
      [] t = "getcurrent" -> GetCurrentLocks
      [] t = "keepalive" -> {SetHealthyLocks}
      [] OTHER -> StartLocks

\* the operations task t has executed in its current function
LkDone(l, t) == IF l.pc[t] = 0 THEN <<>> ELSE SubSeq(l.path[t], 1, l.pc[t] - 1)

LkCount(seq, op, m) == Cardinality({i \in 1..Len(seq) : seq[i].op = op /\ seq[i].m = m})

\* sync.RWMutex: t holds m for writing / for reading
HoldsW(l, t, m) == LkCount(LkDone(l, t), "Lock", m) > LkCount(LkDone(l, t), "Unlock", m)

HoldsR(l, t, m) == LkCount(LkDone(l, t), "RLock", m) > LkCount(LkDone(l, t), "RUnlock", m)

\* the operation t is about to execute
LkNextOp(l, t) == l.path[t][l.pc[t]]

LkAtAcquire(l, t) == l.pc[t] > 0 /\ LkNextOp(l, t).op \in {"Lock", "RLock"}

\* Lock waits for every holder, RLock for the writer
LkFree(l, t) ==
    LET o == LkNextOp(l, t) IN
    IF o.op = "Lock"
    THEN \A u \in LkThreads : ~HoldsW(l, u, o.m) /\ ~HoldsR(l, u, o.m)
    ELSE \A u \in LkThreads : ~HoldsW(l, u, o.m)

\* the function returns after its last operation
LkAdvance(l, t) ==
    IF l.pc[t] = Len(l.path[t])
    THEN [l EXCEPT !.pc[t] = 0, !.path[t] = <<>>]
    ELSE [l EXCEPT !.pc[t] = l.pc[t] + 1]

\* a task enters one of its functions
LkBegin(t, p) ==
    /\ lk.pc[t] = 0
    /\ lk' = [lk EXCEPT !.pc[t] = 1, !.path[t] = p]
    /\ UNCHANGED <<coreVars, ka, lp, dc, sf, hp, sp, mx, cx, tf, tt, ac, tk, pw, lt>>

LkAcquire(t) ==
    /\ LkAtAcquire(lk, t)
    /\ LkFree(lk, t)
    /\ lk' = LkAdvance(lk, t)
    /\ UNCHANGED <<coreVars, ka, lp, dc, sf, hp, sp, mx, cx, tf, tt, ac, tk, pw, lt>>

LkRelease(t) ==
    /\ lk.pc[t] > 0
    /\ ~LkAtAcquire(lk, t)
    /\ lk' = LkAdvance(lk, t)
    /\ UNCHANGED <<coreVars, ka, lp, dc, sf, hp, sp, mx, cx, tf, tt, ac, tk, pw, lt>>

NextLocks ==
    \/ \E t \in LkThreads : \E p \in LkPaths(t) : LkBegin(t, p)
    \/ \E t \in LkThreads : LkAcquire(t)
    \/ \E t \in LkThreads : LkRelease(t)

SpecLocks == Init /\ [][NextLocks]_vars

\* t waits for u: t is at an acquire of a mutex that u holds in a
\* conflicting mode, or t is at an RLock and u is a writer queued on that
\* mutex (a queued writer holds back new readers)
LkWaitsFor(l, t, u) ==
    /\ LkAtAcquire(l, t)
    /\ LET o == LkNextOp(l, t) IN
       \/ HoldsW(l, u, o.m)
       \/ o.op = "Lock" /\ HoldsR(l, u, o.m)
       \/ /\ o.op = "RLock"
          /\ u # t
          /\ LkAtAcquire(l, u)
          /\ LkNextOp(l, u).op = "Lock"
          /\ LkNextOp(l, u).m = o.m
          /\ ~LkFree(l, u)

\* a set of tasks each waiting for a member of the set
LkDeadlocked(l) ==
    \E S \in SUBSET LkThreads :
        /\ S # {}
        /\ \A t \in S : \E u \in S : LkWaitsFor(l, t, u)

\* ---- the keepalive and the worker's control loop on one stream ----
\* out: Pings written and not yet read by the worker; in: Pongs written by
\* the worker and not yet read by the keepalive, oldest first.

\* ticker.C: nonce++, WritePing, SetReadDeadline
LtPing ==
    /\ lt.pc = "tick"
    /\ LET n == (lt.nonce + 1) % NonceSpace IN
       lt' = [lt EXCEPT !.pc = "read", !.nonce = n, !.out = Append(@, n)]
    /\ UNCHANGED <<coreVars, ka, lp, dc, sf, hp, sp, mx, cx, tf, tt, ac, tk, pw, lk>>

\* handleControlStream: case OpPing: WritePong(stream, nonce)
LtWorker ==
    /\ lt.out # <<>>
    /\ lt' = [lt EXCEPT !.out = Tail(@), !.in = Append(@, Head(lt.out))]
    /\ UNCHANGED <<coreVars, ka, lp, dc, sf, hp, sp, mx, cx, tf, tt, ac, tk, pw, lk>>

\* ReadControlMessage returns the oldest buffered frame; only a Pong with
\* the current nonce resets the counter
LtRead ==
    /\ lt.pc = "read"
    /\ lt.in # <<>>
    /\ lt' = IF Head(lt.in) = lt.nonce
             THEN [lt EXCEPT !.pc = "tick", !.in = Tail(@),
                             !.missed = ResetMissedPings(@),
                             !.healthy = TRUE, !.got = "match"]
             ELSE [lt EXCEPT !.pc = "tick", !.in = Tail(@), !.got = "mismatch"]
    /\ UNCHANGED <<coreVars, ka, lp, dc, sf, hp, sp, mx, cx, tf, tt, ac, tk, pw, lk>>

\* the read deadline passes with nothing buffered: IncrementMissedPings,
\* unhealthy and return on the third
LtTimeout ==
    /\ lt.pc = "read"
    /\ lt.in = <<>>
    /\ lt' = IF MissLimitReached(IncrementMissedPings(lt.missed))
             THEN [lt EXCEPT !.pc = "stopped", !.missed = IncrementMissedPings(@),
                             !.healthy = FALSE, !.got = "timeout"]
             ELSE [lt EXCEPT !.pc = "tick", !.missed = IncrementMissedPings(@),
                             !.got = "timeout"]
    /\ UNCHANGED <<coreVars, ka, lp, dc, sf, hp, sp, mx, cx, tf, tt, ac, tk, pw, lk>>

\* ctx.Done() in the select or in a check around the probe
LtCancel ==
    /\ lt.pc # "stopped"
    /\ lt' = [lt EXCEPT !.pc = "stopped"]
    /\ UNCHANGED <<coreVars, ka, lp, dc, sf, hp, sp, mx, cx, tf, tt, ac, tk, pw, lk>>

NextLate == LtPing \/ LtWorker \/ LtRead \/ LtTimeout \/ LtCancel

SpecLate == Init /\ [][NextLate]_vars

\* the ticker keeps firing, the worker answers every Ping, and a buffered
\* frame is returned by the read; nothing obliges a read to time out
SpecLateFair ==
    /\ SpecLate
    /\ WF_vars(LtPing)
    /\ WF_vars(LtWorker)
    /\ WF_vars(LtRead)

\* ---- a secondary under watch, from its launch on ----
\* the state launchSecondarySession leaves: the new secondary appended behind
\* the primary, its watcher started, the launch flags cleared
InitPromotion ==
    /\ phase = "running"
    /\ ctxDone = FALSE
    /\ shutdownCh = FALSE
    /\ monitorOn = TRUE
    /\ sessions = <<1, 2>>
    /\ sess = [s \in SID |->
                 IF s = 1 THEN [role |-> RolePrimary, healthy |-> TRUE, closed |-> FALSE,
                                cancelled |-> FALSE, drain |-> FALSE]
                 ELSE IF s = 2 THEN [role |-> RoleSecondary, healthy |-> TRUE,
                                     closed |-> FALSE, cancelled |-> FALSE,
                                     drain |-> FALSE]
                 ELSE NoSess]
    /\ ls = [launchingPrimary |-> FALSE, launchingSecondary |-> FALSE,
             failedAttempts |-> 0]
    /\ sinceLast = 0
    /\ tasks = EmptyBag
    /\ watch = [s \in SID |-> IF s = 2 THEN [pc |-> "watch", count |-> 0] ELSE NoWatch]
    /\ flow = [f \in FID |-> NoFlow]
    /\ events = 0
    /\ ka = KaInit
    /\ lp = LpInit
    /\ dc = DcInit
    /\ sf = SfInit
    /\ hp = HpInit
    /\ sp = SpInit
    /\ mx = MxInit
    /\ cx = CxInit
    /\ tf = TfInit
    /\ tt = TtInit
    /\ ac = AcInit
    /\ tk = TkInit
    /\ pw = PwInit
    /\ lk = LkInit
    /\ lt = LtInit

NextPromotion ==
    \/ checkSessions
    \/ \E x \in BagToSet(tasks) : Precheck(x)
    \/ \E x \in BagToSet(tasks) : LaunchOk(x)
    \/ \E x \in BagToSet(tasks) : LaunchFail(x)
    \/ \E x \in BagToSet(tasks) : AppendOrDiscard(x)
    \/ \E x \in BagToSet(tasks) : ClearExplicit(x)
    \/ \E x \in BagToSet(tasks) : ClearDeferred(x)
    \/ \E s \in SID : WatcherTick(s)
    \/ \E s \in SID : WatcherStop(s)
    \/ \E s \in SID : promoteSecondary(s)
    \/ \E d \in SID : DrainFire(d)
    \/ \E d \in SID : DrainEnd(d)
    \/ \E s \in SID : PeerClose(s)
    \/ Tick

SpecPromotion == InitPromotion /\ [][NextPromotion]_vars

\* ---- claims ----
\* C1: in every reachable state the session list holds at most one primary
\* and at most one secondary
C1_OnePrimaryOneSecondary ==
    /\ Cardinality({i \in 1..Len(sessions) : IsPrimary(sess, sessions[i])}) <= 1
    /\ Cardinality({i \in 1..Len(sessions) : IsSecondary(sess, sessions[i])}) <= 1

\* a promotion has demoted a session that is still listed, and launches have
\* since added a secondary and a primary next to it
C1_Witness ==
    /\ \E i \in 1..Len(sessions) : IsDraining(sess, sessions[i])
    /\ HasPrimary(sessions, sess)
    /\ HasSecondary(sessions, sess)

\* C2: the session list never holds more than two sessions
C2_AtMostTwoSessions == Len(sessions) <= 2

\* C3: a promotion that changes a role (here: before any shutdown) leaves,
\* when it releases the lock, exactly one primary in the list, the promoted
\* secondary, and the previous primary draining
C3_PromotionLeavesOnePrimary ==
    [][\A s \in SID :
         (watch[s].pc = "promote" /\ watch'[s].pc = "none"
             /\ sess'[s].role # sess[s].role /\ ~shutdownCh)
         => /\ {sessions'[i] : i \in {j \in 1..Len(sessions') :
                                        IsPrimary(sess', sessions'[j])}} = {s}
            /\ \A i \in 1..Len(sessions) :
                 IsPrimary(sess, sessions[i]) => IsDraining(sess', sessions[i])]_vars

\* C4: a session GetCurrent returns is in the list, healthy and not draining
C4_CurrentIsEligible ==
    LET s == GetCurrent(sessions, sess)
    IN s # NoSession =>
          /\ s \in Range(sessions)
          /\ IsHealthy(sess, s)
          /\ ~IsDraining(sess, s)

\* GetCurrent passes over a listed session that is unhealthy or draining and
\* returns another one
C4_Witness ==
    LET s == GetCurrent(sessions, sess)
    IN /\ s # NoSession
       /\ \E i \in 1..Len(sessions) :
             /\ sessions[i] # s
             /\ IsDraining(sess, sessions[i]) \/ ~IsHealthy(sess, sessions[i])

\* C5: a flow's stream is opened on the session GetCurrent yields at the
\* moment the stream is opened
C5_StreamOnCurrentSession ==
    [][\A f \in FID :
         (flow[f].pc = "negotiating" /\ flow'[f].pc = "open")
         => flow'[f].sid = GetCurrent(sessions, sess)]_vars

\* C6: while a flow that was in flight on the primary at its demotion is
\* still open, the daemon never tears that session down
C6_NeverTornDown ==
    [][\A f \in FID :
         (flow[f].pc = "open" /\ flow[f].atDemotion /\ flow'[f] = flow[f])
         => ~(~sess[flow[f].sid].cancelled /\ sess'[flow[f].sid].cancelled)]_vars

\* C6 (amended): while such a flow is still open, the daemon tears that
\* session down only when its drain timer fires or when the manager shuts down
C6_TornDownOnlyByDrainOrShutdown ==
    [][\A f \in FID :
         (flow[f].pc = "open" /\ flow[f].atDemotion /\ flow'[f] = flow[f]
             /\ ~sess[flow[f].sid].cancelled /\ sess'[flow[f].sid].cancelled)
         => \/ sess[flow[f].sid].drain /\ ~sess'[flow[f].sid].drain
            \/ ctxDone /\ phase = "running" /\ phase' = "stopped"]_vars

\* a flow is open on the session a promotion has just demoted; the drain
\* timer is running and the promoted session is the listed primary
C6_Witness ==
    \E f \in FID :
       /\ flow[f].pc = "open" /\ flow[f].atDemotion
       /\ IsDraining(sess, flow[f].sid)
       /\ sess[flow[f].sid].drain
       /\ ~sess[flow[f].sid].cancelled
       /\ HasPrimary(sessions, sess)

\* C7: once shutdown has run the session list is empty and stays empty
C7_EmptyAfterShutdown == phase = "stopped" => sessions = <<>>

\* C8: at most one launch task of each kind is in flight, and the flag of its
\* kind is set for as long as it is (a task is in flight until it reaches its
\* own clearLaunchState)
C8_OneLaunchPerKind ==
    \A kind \in {"P", "S"} :
       LET InFlight == {x \in BagToSet(tasks) :
                           x.kind = kind /\ x.pc \in {"precheck", "launch", "append"}}
       IN /\ \A x \in InFlight : CopiesIn(x, tasks) = 1
          /\ Cardinality(InFlight) <= 1
          /\ InFlight # {} =>
                IF kind = "P" THEN ls.launchingPrimary ELSE ls.launchingSecondary

\* C9: when a launch task that succeeded or was skipped as redundant
\* finishes, failedAttempts is 0
C9_ZeroAfterSuccess ==
    [][\A x \in BagToSet(tasks) :
         (x.pc = "deferredOk" /\ tasks' = tasks (-) SetToBag({x}))
         => ls'.failedAttempts = 0]_vars

\* C10: a primary (secondary) launch is let through only if the time since
\* the last attempt is at least 5 s (2 s), and at least 5 s x n (2 s x n) once
\* failedAttempts = n exceeds 2
C10_LaunchOnlyAfterCooldown ==
    [][/\ (~ls.launchingPrimary /\ ls'.launchingPrimary)
             => sinceLast >= (IF ls.failedAttempts > 2
                              THEN 5 * ls.failedAttempts ELSE 5)
       /\ (~ls.launchingSecondary /\ ls'.launchingSecondary)
             => sinceLast >= (IF ls.failedAttempts > 2
                              THEN 2 * ls.failedAttempts ELSE 2)]_vars

\* a primary launch has just been let through after more than two failures
C10_Witness ==
    /\ ls.launchingPrimary
    /\ ls.failedAttempts > 2
    /\ sinceLast = 0

\* C11: a read error that is the first or second since the last valid pong
\* leaves the session healthy and the task probing; the third makes the
\* session unhealthy and ends the task; nothing else makes the task give up
\* on account of misses
C11_UnhealthyAtThirdMiss ==
    [][/\ ka'.streak = ka.streak + 1 =>
            IF ka'.streak = 3
            THEN ~ka'.healthy /\ ka'.pc = "stopped" /\ ka'.why = "misses"
            ELSE ka'.healthy /\ ka'.pc = "select"
       /\ ka'.why = "misses" => ka'.streak = 3]_vars

\* the task has given up after three misses in a row that followed earlier
\* misses and a valid pong
C11_Witness ==
    /\ ka.why = "misses"
    /\ ~ka.healthy
    /\ ka.probes > 3

\* C12: when launchSession has returned an error, the UDP socket, the
\* accepted connection and the control stream are not open, no keepalive
\* task was started, and a listener still open (of this launch or of an
\* earlier failed one) is one whose context is cancelled and whose closing
\* goroutine is pending
C12_ReleasedOnError ==
    (lp.pc = "done" /\ lp.result = "error") =>
        /\ lp.udp # "open"
        /\ lp.conn # "open"
        /\ lp.stream # "open"
        /\ ~lp.keepalive
        /\ lp.listener = "open" => (lp.ctx /\ lp.closer = "waiting")
        /\ lp.stray = 0

\* the control stream could not be opened: the launch returned an error
\* with the accepted connection and the listener closed
C12_Witness ==
    /\ lp.pc = "done" /\ lp.result = "error"
    /\ lp.conn = "closed"
    /\ lp.listener = "closed"

\* C13: once a session's cancel handle has been invoked, its role and its
\* healthy flag are not written again by any step
C13_NoWriteAfterCancel ==
    [][\A s \in SID :
         sess[s].cancelled =>
             /\ sess'[s].role = sess[s].role
             /\ sess'[s].healthy = sess[s].healthy]_vars

\* the only session in the list is an unhealthy primary
OnlyUnhealthyPrimary ==
    /\ Len(sessions) = 1
    /\ IsPrimary(sess, sessions[1])
    /\ ~IsHealthy(sess, sessions[1])

\* the monitor tick has started a background primary launch
PrimaryLaunchStarted ==
    /\ ls'.launchingPrimary
    /\ NewTask("P") \in BagToSet(tasks')

\* C14 as stated: when the only session is an unhealthy primary, the
\* monitor tick removes it from the list and invokes its cancel handle,
\* GetCurrent returns no session before and after the tick, and the tick
\* starts a primary launch if the launch gate permits
C14_TickRemovesAndCancels ==
    [][(OnlyUnhealthyPrimary /\ checkSessions) =>
          /\ sessions' = <<>>
          /\ sess'[sessions[1]].cancelled
          /\ GetCurrent(sessions, sess) = NoSession
          /\ GetCurrent(sessions', sess') = NoSession
          /\ canLaunchPrimary(ls, sinceLast) => PrimaryLaunchStarted]_vars

\* C14 (amended): when the only session is an unhealthy primary whose
\* transport has not signalled closure, the monitor tick removes it from
\* the list and invokes its cancel handle; whether or not the transport is
\* closed, GetCurrent returns no session before and after the tick, the
\* list is empty after it, and the tick starts a primary launch if the
\* launch gate permits
C14_TickRemovesAndCancelsIfOpen ==
    [][(OnlyUnhealthyPrimary /\ checkSessions) =>
          /\ sessions' = <<>>
          /\ ~ConnDone(sess, sessions[1]) => sess'[sessions[1]].cancelled
          /\ GetCurrent(sessions, sess) = NoSession
          /\ GetCurrent(sessions', sess') = NoSession
          /\ canLaunchPrimary(ls, sinceLast) => PrimaryLaunchStarted]_vars

\* the primary became unhealthy during the run with its transport open;
\* the tick removed and cancelled it and a primary launch is in flight
C14_Witness ==
    /\ events = 1
    /\ sessions = <<>>
    /\ \E s \in SID : /\ IsPrimary(sess, s)
                      /\ ~IsHealthy(sess, s)
                      /\ ~ConnDone(sess, s)
                      /\ sess[s].cancelled
    /\ \A s \in SID : s > 1 => sess[s] = NoSess
    /\ ls.launchingPrimary
    /\ NewTask("P") \in BagToSet(tasks)

\* C17: for every content of the session list GetCurrent returns a healthy
\* primary if the list has one; otherwise a healthy secondary if it has
\* one; otherwise a healthy session of any other role except draining;
\* otherwise nothing; a draining session is never returned
C17_PreferenceOrder ==
    LET g == GetCurrent(sessions, sess)
        L == Range(sessions)
        HP == {s \in L : sess[s].healthy /\ sess[s].role = RolePrimary}
        HS == {s \in L : sess[s].healthy /\ sess[s].role = RoleSecondary}
        HO == {s \in L : /\ sess[s].healthy
                         /\ sess[s].role \notin {RolePrimary, RoleSecondary,
                                                 RoleDraining}}
    IN /\ HP # {} => g \in HP
       /\ (HP = {} /\ HS # {}) => g \in HS
       /\ (HP = {} /\ HS = {} /\ HO # {}) => g \in HO
       /\ (HP = {} /\ HS = {} /\ HO = {}) => g = NoSession
       /\ g # NoSession => sess[g].role # RoleDraining

\* the list holds an unhealthy primary, a healthy draining session and a
\* healthy secondary after them: the accept loop asked for the current
\* session and got the secondary
C17_Witness ==
    /\ Len(sessions) = 3
    /\ sess[sessions[1]].role = RolePrimary /\ ~sess[sessions[1]].healthy
    /\ sess[sessions[2]].role = RoleDraining /\ sess[sessions[2]].healthy
    /\ sess[sessions[3]].role = RoleSecondary /\ sess[sessions[3]].healthy
    /\ GetCurrent(sessions, sess) = sessions[3]
    /\ \E f \in FID : flow[f].pc = "negotiating" /\ flow[f].sid = sessions[3]

\* C15: the drain cleanup attempts the Shutdown write only when the drain
\* timer has run its full time, and writes it only then; it calls the
\* session's cancel only after sendShutdownSignal has run; and when the
\* select ended on the closed transport nothing is written and the session
\* is not cancelled
C15_DrainOrder ==
    /\ dc.wrote # "none" => dc.wroteAt = DrainTicks
    /\ dc.cancelled => (dc.wrote # "none" /\ dc.pc = "done")
    /\ dc.pc = "closed" => (dc.conn /\ dc.wrote = "none" /\ ~dc.cancelled)
    /\ (dc.pc = "done" /\ ~dc.cancelled) => (dc.conn /\ dc.wrote = "none")

\* the timer fired, the Shutdown opcode was written and the session was
\* then cancelled
C15_Witness ==
    /\ dc.pc = "done"
    /\ dc.wrote = "ok"
    /\ dc.elapsed = DrainTicks
    /\ dc.cancelled

C18_FlowOrder ==
    /\ sf.reply # -1 => sf.sent = <<<<"len", sf.target>>, <<"target", sf.target>>>>
    /\ (sf.pc = "splice" \/ sf.spliced) => sf.reply = 0
    /\ (\E i \in 1..Len(sf.client) : sf.client[i] = "success") => sf.reply = 0
    /\ sf.failed \in {"open", "writeLen", "writeTarget", "read", "reply"} =>
          /\ ~sf.spliced
          /\ sf.pc # "splice"
          /\ \E i \in 1..Len(sf.client) : sf.client[i] = "failure"

\* C19: once the puncher has taken the matching datagram, the burst
\* emitter sends at most the datagram it was sending at that moment, and
\* the puncher returns Ok without the burst having to be complete
C19_SuccessWinsImmediately ==
    hp.main \in {"draining", "ok"} => hp.sent <= hp.sentAtSuccess + 1

\* C20: the splicer closes both connections only once a direction has
\* ended or the context is cancelled, it has closed them before it waits
\* for the other direction, and when it has returned both connections are
\* closed and both directions have finished; no direction copies or ends
\* after the return, cancelled from outside or not
C20_BothEndedAtReturn ==
    /\ sp.closed => (sp.ctx /\ (sp.ext \/ \E d \in Dirs : sp.dir[d] # "copying"))
    /\ sp.main \in {"second", "returned"} => sp.closed
    /\ sp.main = "returned" =>
          /\ \A d \in Dirs : sp.dir[d] = "finished"
          /\ sp.closed
          /\ sp.done = 0

\* one direction reached end-of-stream, the splicer closed both
\* connections, the other direction ended on the closed connection, and
\* the splicer returned
C20_Witness ==
    /\ sp.main = "returned"
    /\ ~sp.ext
    /\ sp.why["up"] = "eof"
    /\ sp.why["down"] = "closed"
    /\ sp.chunks["down"] > 0

\* C21: a step in which a SOCKS5 flow fails, and every later step of that
\* failed flow, leaves unchanged the session list, the session's role,
\* healthy flag, missed probes and connection, and every other flow's
\* stream and client connection
C21_FlowFailureIsLocal ==
    [][\A f \in HID :
         (mx'.flow[f] # mx.flow[f] /\ mx'.flow[f].failed # "none") =>
             /\ mx'.session = mx.session
             /\ mx'.listed = mx.listed
             /\ \A g \in HID \ {f} : mx'.flow[g] = mx.flow[g]]_vars

\* one flow failed at its stream write and returned while another flow on
\* the same healthy, listed session is splicing
C21_Witness ==
    /\ mx.listed /\ mx.session.healthy /\ mx.session.conn = "open"
    /\ \E f, g \in HID :
         /\ mx.flow[f].failed = "writeTarget" /\ mx.flow[f].pc = "closed"
         /\ mx.flow[g].pc = "splice" /\ mx.flow[g].stream = "open"
         /\ mx.flow[g].client = "open"

\* C22: as long as only WritePing, WritePong and WriteShutdown have
\* written to the stream, the calls of ReadControlMessage return, without
\* error and in the order written, the opcode and the nonce of each frame
\* (0x01 and N for WritePing(N), 0x02 and N for WritePong(N), 0x03 for
\* WriteShutdown), and once every frame is read nothing is left on the wire
C22_ControlRoundTrip ==
    cx.raw = 0 =>
        /\ Len(cx.out) <= Len(cx.written)
        /\ \A i \in 1..Len(cx.out) :
             /\ ~cx.out[i].err
             /\ cx.out[i].opcode = cx.written[i].op
             /\ cx.written[i].op \in {OpPing, OpPong} =>
                    cx.out[i].nonce = cx.written[i].nonce
        /\ Len(cx.out) = Len(cx.written) <=> cx.wire = <<>>

\* a Ping, a Pong with the same nonce and a Shutdown were written back to
\* back and all three were read
C22_Witness ==
    /\ cx.raw = 0
    /\ Len(cx.written) = 3
    /\ cx.written[1] = [op |-> OpPing, nonce |-> <<258, 772, 1286, 1800>>]
    /\ cx.written[2] = [op |-> OpPong, nonce |-> <<258, 772, 1286, 1800>>]
    /\ cx.written[3].op = OpShutdown
    /\ Len(cx.out) = 3
    /\ cx.wire = <<>>

\* C23: a call of ReadControlMessage that finds an opcode byte other than
\* 0x01, 0x02 and 0x03 returns an error and consumes that byte only
C23_UnknownOpcodeIsError ==
    [][(cx'.out # cx.out /\ cx.wire[1] \notin {1, 2, 3}) =>
          /\ cx'.out[Len(cx'.out)].err
          /\ cx'.out[Len(cx'.out)].opcode = cx.wire[1]
          /\ cx'.wire = Tail(cx.wire)]_vars

\* an unknown opcode byte was read with a Ping frame behind it, and the
\* next call returned that Ping
C23_Witness ==
    /\ Len(cx.out) = 2
    /\ cx.out[1].err /\ cx.out[1].opcode = 4
    /\ ~cx.out[2].err /\ cx.out[2].opcode = OpPing
    /\ cx.out[2].nonce = <<65535, 65535, 65535, 65535>>

\* C24: the targets the front-end composed and WriteSOCKS5TargetAddress
\* wrote are returned by ReadSOCKS5TargetAddress unchanged, without error
\* and in order; and a call that finds fewer than 4 bytes, or a declared
\* length above 1024, returns an error and no target
C24_TargetRoundTrip ==
    /\ ~tf.raw =>
          /\ Len(tf.out) <= Len(tf.written)
          /\ \A i \in 1..Len(tf.out) :
               ~tf.out[i].err /\ tf.out[i].target = tf.written[i]
          /\ Len(tf.out) = Len(tf.written) => tf.wire = <<>>
    /\ (Len(tf.out) > 0 /\ Len(tf.fed) < 4) =>
          tf.out[Len(tf.out)].err /\ tf.out[Len(tf.out)].target = <<>>
    /\ (/\ Len(tf.out) > 0
        /\ Len(tf.fed) >= 4
        /\ \/ tf.fed[1] > 0 \/ tf.fed[2] > 0
           \/ tf.fed[3] * 256 + tf.fed[4] > 1024) =>
          tf.out[Len(tf.out)].err /\ tf.out[Len(tf.out)].target = <<>>

\* the target 255.255.255.255:65535 was written and read back
C24_Witness ==
    /\ ~tf.raw
    /\ Len(tf.out) = 1
    /\ Len(tf.written) = 1
    /\ tf.out[1].target = <<50, 53, 53, 46, 50, 53, 53, 46, 50, 53, 53, 46,
                            50, 53, 53, 58, 54, 53, 53, 51, 53>>

\* C25: every call of RemainingTTL returns ttl minus the time elapsed
\* since started_at when that difference is positive and 0 otherwise; the
\* value is never negative, and never larger than what an earlier call on
\* the same session returned
C25_RemainingTTL ==
    [][(tt'.called /\ tt.started /\ tt'.elapsed = tt.elapsed) =>
          /\ tt'.last = IF tt.ttl - tt.elapsed > 0 THEN tt.ttl - tt.elapsed ELSE 0
          /\ tt'.last >= 0
          /\ tt.called => tt'.last <= tt.last]_vars

\* the session has outlived its TTL and RemainingTTL has returned 0
C25_Witness ==
    /\ tt.called
    /\ tt.ttl > 1
    /\ tt.elapsed > tt.ttl
    /\ tt.last = 0

\* C26: when the worker never dials after a successful punch, the accept
\* step has failed once handshake_timeout has passed: Launch has returned
\* an error and the launch's in-flight flag is clear, so that a later
\* launch can start
C26_AcceptTimesOut ==
    (ac.worker = "silent" /\ ac.waited > QUICHandshakeTimeout) =>
        /\ ac.pc = "done"
        /\ ac.result = "error"
        /\ ~ac.ls.launchingPrimary

\* C27: a monitor tick starts a secondary launch exactly when, after its
\* pruning, a primary is listed whose remaining TTL is at most the overlap
\* window, no secondary is listed, the list holds fewer than 2 sessions and
\* the gate permits (no secondary launch in flight, cooldown elapsed); the
\* tick ends with the launch goroutine started but not yet run
C27_SecondaryLaunchExactlyWhenDue ==
    [][(tk'.n # tk.n) =>
          LET started == CopiesIn(NewTask("S"), tasks') > CopiesIn(NewTask("S"), tasks)
              due == /\ HasPrimary(sessions', sess')
                     /\ tk'.expiring
                     /\ ~HasSecondary(sessions', sess')
                     /\ Len(sessions') < 2
                     /\ ~ls.launchingSecondary
                     /\ sinceLast >= CooldownSecondary(ls.failedAttempts)
          IN /\ started <=> due
             /\ started => ls'.launchingSecondary]_vars

\* a tick has started a secondary launch next to an expiring primary, and
\* the launch has not run yet
C27_Witness ==
    /\ tk.n = 1
    /\ tk.expiring
    /\ HasPrimary(sessions, sess)
    /\ ls.launchingSecondary
    /\ CopiesIn(NewTask("S"), tasks) = 1
    /\ Len(sessions) = 1

\* C28: the watcher calls promoteSecondary only on the third healthy
\* observation in a row, an unhealthy observation sets the count to zero,
\* and once the 45 s timer has fired, the manager context is cancelled or
\* the secondary's transport has closed, the watcher does not go on to
\* promote
C28_PromotionOnlyWhenDue ==
    [][/\ (pw.pc = "watch" /\ pw'.pc = "promote") =>
            /\ pw.healthy /\ pw.count = 2
            /\ ~pw.timeout /\ ~pw.ctx /\ ~pw.closed
       /\ (pw.pc = "watch" /\ pw.tick /\ ~pw'.tick /\ ~pw.healthy) =>
            pw'.count = 0 /\ pw'.pc = "watch"]_vars

\* C29: when promoteSecondary finds the secondary unhealthy under the
\* manager lock it changes no session's role, the primary stays primary,
\* the list is untouched and no drain cleanup is started
C29_UnhealthyPromotionAborts ==
    [][\A s \in SID :
          (watch[s].pc = "promote" /\ watch'[s].pc # "promote" /\ ~sess[s].healthy) =>
              /\ \A x \in SID : /\ sess'[x].role = sess[x].role
                                /\ sess'[x].drain = sess[x].drain
              /\ sessions' = sessions
              /\ \A x \in SID : IsPrimary(sess, x) => IsPrimary(sess', x)]_vars

\* the watcher has counted three healthy ticks and is about to call
\* promoteSecondary, the secondary has since turned unhealthy, and a
\* primary is listed
C29_Witness ==
    \E s \in SID :
        /\ watch[s].pc = "promote"
        /\ IsSecondary(sess, s)
        /\ ~sess[s].healthy
        /\ \E i \in 1..Len(sessions) : sessions[i] # s /\ IsPrimary(sess, sessions[i])

\* C30: the keepalive task, not cancelled, has read a Pong.  If its nonce
\* differs from the nonce of the Ping just sent, the missed-probe count and
\* the healthy flag are as before and the task is back at its select for
\* the next tick; if it matches, the count is 0 and the flag is true
C30_PongNonce ==
    [][(ka.pc = "read" /\ ka'.pc # "read" /\ ~ka.ctx /\ ka'.why # "panic"
          /\ ~ka'.got.err /\ ka'.got.opcode = OpPong) =>
              IF ka'.got.nonce = ka.probes
              THEN ka'.missed = 0 /\ ka'.healthy /\ ka'.pc = "select"
              ELSE /\ ka'.missed = ka.missed
                   /\ ka'.healthy = ka.healthy
                   /\ ka'.pc = "select"]_vars

\* after a missed probe, a Pong carrying the previous Ping's nonce has been
\* read: the miss is still counted and the task waits for the next tick
C30_Witness ==
    /\ ka.pc = "select"
    /\ ~ka.got.err
    /\ ka.got.opcode = OpPong
    /\ ka.got.nonce = ka.probes - 1
    /\ ka.missed = 1
    /\ ka.healthy

\* C31: whenever the keepalive task has exited, for whatever reason and also
\* after a panic, the session's control stream is closed and no read
\* deadline is left on it; a Shutdown frame read by a task that is not
\* cancelled ends the task and leaves the session unhealthy
C31_ExitClosesStreamClearsDeadline ==
    /\ ka.pc = "stopped" => (ka.stream = "closed" /\ ~ka.deadline)
    /\ ka.why = "shutdown" => (ka.pc = "stopped" /\ ~ka.healthy)

\* C32: once PerformNATHolePunch has returned, with nil or with the timeout
\* error, the socket has no read deadline and neither of the puncher's
\* goroutines writes to it, finishes a read on it or sets a deadline on it
C32_SocketUntouchedAfterReturn ==
    [][hp'.main \in {"ok", "timeout"} =>
          /\ ~hp'.deadline
          /\ hp.main \in {"ok", "timeout"} => hp' = hp]_vars

\* C33: within one launch the punch socket and the transport listener never
\* hold the local port together: the listener exists only after the punch
\* step has passed and the punch socket is closed, it is bound to the port
\* the punch socket had, and a failed rebind fails the launch with no
\* listener and no second bind
C33_PortHandedOver ==
    [][/\ ~(lp'.udp = "open" /\ lp'.listener = "open")
       /\ lp'.listener # "none" =>
             /\ lp'.udp = "closed"
             /\ lp'.bound = lp'.port /\ lp'.port \in EphemeralPorts
             /\ lp'.pc \in {"accept", "stream", "publish", "failed", "done"}
       /\ (lp.pc = "listen" /\ lp'.pc = "failed") =>
             lp'.listener = "none" /\ lp'.bound = 0 /\ lp'.result = "error"
       /\ (lp.bound # 0 /\ lp'.attempt = lp.attempt) => lp'.bound = lp.bound]_vars

\* a second launch, after a failed one, is listening on the port its own
\* punch socket had
C33_Witness ==
    /\ lp.attempt > 1
    /\ lp.listener = "open"
    /\ lp.udp = "closed"
    /\ lp.bound = lp.port
    /\ lp.port \in EphemeralPorts

C35_UnhealthyIsAbsorbing ==
    [][~ka.healthy => ~ka'.healthy]_vars

\* the session was marked unhealthy by the third missed probe after an
\* earlier matching pong had reset the count, and the task has returned
C35_Witness ==
    /\ ~ka.healthy
    /\ ka.pc = "stopped"
    /\ ka.why = "misses"
    /\ ka.probes > 3
    /\ ka.stream = "closed"

\* C36: a session's role only moves forward: it is given primary or
\* secondary when launched, a secondary may become primary, a primary may
\* become draining, and no other change of role ever happens
C36_RolesMoveForward ==
    [][\A s \in SID :
          \/ sess'[s].role = sess[s].role
          \/ sess[s].role = "none" /\ sess'[s].role \in {RolePrimary, RoleSecondary}
          \/ sess[s].role = RoleSecondary /\ sess'[s].role = RolePrimary
          \/ sess[s].role = RolePrimary /\ sess'[s].role = RoleDraining]_vars

\* a promotion has happened: a later session is primary next to the
\* draining session it replaced
C36_Witness ==
    \E s, d \in SID :
        /\ d < s
        /\ IsPrimary(sess, s) /\ IsDraining(sess, d)
        /\ s \in Range(sessions) /\ d \in Range(sessions)

\* C37: the drain cleanup, the only writer of the Shutdown opcode, is
\* pending only for a session whose role is draining, and the session is
\* draining when the cleanup fires and writes; no primary and no secondary
\* is ever sent Shutdown
C37_ShutdownOnlyToDraining ==
    [][\A d \in SID :
          /\ sess'[d].drain => IsDraining(sess', d)
          /\ (sess[d].drain /\ ~sess'[d].drain) =>
                (IsDraining(sess, d) /\ IsDraining(sess', d))]_vars

\* the drain timer of a demoted session has fired: Shutdown was written and
\* the session cancelled, with its transport still open and a primary listed
C37_Witness ==
    \E d \in SID :
        /\ IsDraining(sess, d)
        /\ ~sess[d].drain
        /\ sess[d].cancelled
        /\ ~sess[d].closed
        /\ HasPrimary(sessions, sess)

\* C38: no reachable interleaving of the tasks leaves a set of them waiting
\* for each other on cm.mu, the launch-state mutex and a health mutex; no
\* task asks for cm.mu while it holds the launch-state or a health mutex;
\* and no task enters startGoroutine while it holds cm.mu
C38_NoLockDeadlock ==
    /\ ~LkDeadlocked(lk)
    /\ \A t \in LkThreads :
          (LkAtAcquire(lk, t) /\ LkNextOp(lk, t).m = "mu") =>
              /\ ~HoldsW(lk, t, "ls")
              /\ ~HoldsW(lk, t, "hm")
              /\ ~HoldsR(lk, t, "hm")
    /\ \A t \in LkThreads :
          (LkAtAcquire(lk, t) /\ LkNextOp(lk, t).fn = "startGoroutine") =>
              (~HoldsW(lk, t, "mu") /\ ~HoldsR(lk, t, "mu"))

\* the monitor tick is inside IsHealthy under cm.mu while the watcher waits
\* in startGoroutine, GetCurrent waits for its read lock and the keepalive
\* waits to write the health flag
C38_Witness ==
    /\ HoldsW(lk, "monitor", "mu")
    /\ HoldsR(lk, "monitor", "hm")
    /\ LkAtAcquire(lk, "watcher")
    /\ LkNextOp(lk, "watcher").fn = "startGoroutine"
    /\ LkAtAcquire(lk, "getcurrent")
    /\ LkNextOp(lk, "getcurrent").m = "mu"
    /\ LkAtAcquire(lk, "keepalive")
    /\ ~LkFree(lk, "keepalive")

\* C39: once a probe has timed out and its Pong has arrived afterwards, a
\* later probe is read as a matching Pong with the missed count back at 0
\* (or the task has stopped); the task does not go on reading each Pong as
\* a mismatch for the following Ping
C39_Resynchronises ==
    (lt.pc = "tick" /\ lt.got = "timeout" /\ lt.in # <<>>)
        ~> ((lt.got = "match" /\ lt.missed = 0) \/ lt.pc = "stopped")

\* a listed secondary that is healthy, with its transport open, under a
\* manager that has not been stopped
C40_Standing(s) ==
    /\ s \in Range(sessions)
    /\ IsSecondary(sess, s)
    /\ IsHealthy(sess, s)
    /\ ~ConnDone(sess, s)
    /\ ~ctxDone

\* C40: a secondary that stays healthy with its transport open and the
\* manager running cannot remain secondary: its watcher is always there
\* with its next step enabled, every step of the watcher counts one tick up
\* and the third goes to promoteSecondary, which makes it primary; no other
\* step (a monitor tick, the removal of the old primary, the launch of a
\* replacement primary) resets the count, stops the watcher or takes the
\* session off the list
C40_SecondaryEventuallyPromoted ==
    /\ [](\A s \in SID :
            C40_Standing(s) =>
                \/ watch[s].pc = "watch" /\ ENABLED WatcherTick(s)
                \/ watch[s].pc = "promote" /\ ENABLED promoteSecondary(s))
    /\ [][\A s \in SID :
            C40_Standing(s) =>
                \/ C40_Standing(s)' /\ watch'[s] = watch[s]
                \/ /\ C40_Standing(s)'
                   /\ watch[s].pc = "watch" /\ watch'[s].pc = "watch"
                   /\ watch'[s].count = watch[s].count + 1
                   /\ watch'[s].count < PromotionChecks
                \/ /\ C40_Standing(s)'
                   /\ watch[s].pc = "watch" /\ watch'[s].pc = "promote"
                   /\ watch[s].count = PromotionChecks - 1
                \/ /\ ~C40_Standing(s)'
                   /\ watch[s].pc = "promote"
                   /\ s \in Range(sessions')
                   /\ IsPrimary(sess', s)
                \/ /\ ~C40_Standing(s)'
                   /\ ~IsHealthy(sess', s) \/ ConnDone(sess', s) \/ ctxDone']_vars

\* a secondary was promoted after a replacement primary had been launched
\* behind it: the replacement is the one demoted and awaiting its drain
C40_Witness ==
    \E s \in SID, d \in SID :
        /\ d > s
        /\ s \in Range(sessions) /\ d \in Range(sessions)
        /\ IsPrimary(sess, s)
        /\ IsDraining(sess, d)
        /\ sess[d].drain
====
